---- MODULE Spec2Model ----
(***************************************************************************)
(* Recipe-based inventory intelligence engine of the Banelo dashboard      *)
(* (dashboard/views.py).  Two stores are modelled:                         *)
(*   - the Firestore collections products, recipes and recipe_ingredients, *)
(*     read by calculate_max_servings and inventory_view and written by    *)
(*     add_recipe_api, update_recipe_api and delete_recipe_api;            *)
(*   - the local relational tables Product, Sale, Recipe, RecipeIngredient,*)
(*     MLPrediction and MLModel, read and written by                       *)
(*     train_forecasting_model.                                            *)
(* The handlers are translated with the relations their code navigates     *)
(* (sale.product, Recipe.product, recipe.ingredients,                      *)
(* recipe_ingredient.ingredient, MLPrediction.product).                    *)
(* Python floats are modelled as exact rationals (numerator/denominator);  *)
(* round(x, n) is modelled as rounding to the nearest multiple of 10^-n,   *)
(* ties to even.                                                            *)
(***************************************************************************)
EXTENDS Integers, Sequences, FiniteSets, TLC

VARIABLES
    products_col,            \* Firestore collection 'products': doc id -> data
    recipes_col,             \* Firestore collection 'recipes': docs in stream order
    recipe_ingredients_col,  \* Firestore collection 'recipe_ingredients': docs in stream order
    max_servings,            \* last call of calculate_max_servings: [called, recipe_id, result]
    products_data,           \* last context['products'] rendered by inventory_view
    Product,                 \* local table products: id -> row
    Sale,                    \* local table sales: rows
    Recipe,                  \* local table recipes: rows
    RecipeIngredient,        \* local table recipe_ingredients: rows
    MLPrediction,            \* local table ml_predictions: product id -> row
    MLModel,                 \* local table ml_models: name -> row
    training,                \* last run of train_forecasting_model: its locals and response
    forecast,                \* last context rendered by inventory_forecasting_view
    recipe_api,              \* last JSON response of a recipe management endpoint
    add_requests             \* add_recipe_api requests in flight: their locals and position

vars == <<products_col, recipes_col, recipe_ingredients_col, max_servings, products_data,
          Product, Sale, Recipe, RecipeIngredient, MLPrediction, MLModel, training,
          forecast, recipe_api, add_requests>>

firestore_vars == <<products_col, recipes_col, recipe_ingredients_col, recipe_api, add_requests>>
local_vars == <<Product, Sale, Recipe, RecipeIngredient>>

(***************************************************************************)
(* Python values                                                           *)
(***************************************************************************)
\* None, and a value that is not None
None == [isNone |-> TRUE, val |-> 0]
Some(v) == [isNone |-> FALSE, val |-> v]

\* a document field: absent from the dict, stored as null, or a number
Absent == [t |-> "absent", v |-> 0]
Null == [t |-> "null", v |-> 0]
Num(n) == [t |-> "num", v |-> n]

\* a string field that is absent from the dict, and one stored as null
ABSENT == "<absent>"
NULLSTR == "<null>"

\* dict.get(key, default) on a numeric field
GetNum(field, default) == IF field.t = "absent" THEN Num(default) ELSE field

\* dict.get(key, default) on a string field
GetStr(field, default) == IF field = ABSENT THEN default ELSE field

\* str.strip() on the strings of the model
Strip(s) ==
    CASE s = " milk " -> "milk"
      [] s = "Latte " -> "Latte"
      [] s = " latte" -> "latte"
      [] s = "hot drinks " -> "hot drinks"
      [] OTHER -> s

\* str.lower() on the strings of the model
Lower(s) ==
    CASE s = "Latte" -> "latte"
      [] s = "Latte " -> "latte "
      [] s = "Mocha" -> "mocha"
      [] s = "Milk" -> "milk"
      [] s = "Sugar" -> "sugar"
      [] s = "Hot Drinks" -> "hot drinks"
      [] s = "Hot Drinks " -> "hot drinks "
      [] s = "Beverages" -> "beverages"
      [] s = "DRINKS" -> "drinks"
      [] s = "Drinks" -> "drinks"
      [] s = "Pastries" -> "pastries"
      [] s = "Ingredients" -> "ingredients"
      [] OTHER -> s

\* int(a / b) for b > 0: the float quotient truncated toward zero
IntDiv(a, b) == IF a >= 0 THEN a \div b ELSE -((-a) \div b)

RECURSIVE SeqMin(_)
SeqMin(s) ==
    IF Len(s) = 1 THEN s[1]
    ELSE LET m == SeqMin(Tail(s)) IN IF s[1] <= m THEN s[1] ELSE m

RECURSIVE SeqSum(_)
SeqSum(s) == IF s = <<>> THEN 0 ELSE s[1] + SeqSum(Tail(s))

RECURSIVE SeqMax(_)
SeqMax(s) ==
    IF Len(s) = 1 THEN s[1]
    ELSE LET m == SeqMax(Tail(s)) IN IF s[1] >= m THEN s[1] ELSE m

(***************************************************************************)
(* calculate_max_servings (views.py 39-107)                                *)
(***************************************************************************)
\* ingredients_ref.where('recipeFirebaseId', '==', recipe_id).stream()
IngredientsOf(recipe_id) ==
    SelectSeq(recipe_ingredients_col, LAMBDA d : d.recipeFirebaseId = recipe_id)

\* the test that skips a line: "if not ingredient_product_id or quantity_needed == 0"
SkipsLine(ingredient_product_id, quantity_needed) ==
    \/ ingredient_product_id = ""
    \/ (quantity_needed.t = "num" /\ quantity_needed.v = 0)

\* variant: a line naming no product is ignored
UnresolvedIgnored == <<>>

\* what a line whose product document does not exist appends to max_servings_list
UnresolvedCandidates == <<0>>

\* max_for_this_ingredient: "if quantity_needed > 0: int(available / needed) else: 0"
MaxForThisIngredient(available_quantity, quantity_needed) ==
    IF quantity_needed > 0 THEN IntDiv(available_quantity, quantity_needed) ELSE 0

\* variant: the capacities are summed
BottleneckSum(max_servings_list) == SeqSum(max_servings_list)

\* "result = min(max_servings_list) if max_servings_list else 0"
Bottleneck(max_servings_list) ==
    IF max_servings_list = <<>> THEN 0 ELSE SeqMin(max_servings_list)

\* The loop over the recipe's lines.  raised = TRUE when the body raised an exception,
\* which leaves the loop: None.strip() on a null ingredient id raises AttributeError,
\* "None > 0" on a null quantity raises TypeError.
RECURSIVE MaxServingsLoop(_, _)
MaxServingsLoop(docs, max_servings_list) ==
    IF docs = <<>> THEN [raised |-> FALSE, list |-> max_servings_list]
    ELSE LET ingredient_data == Head(docs)
             ingredient_product_id == Strip(GetStr(ingredient_data.ingredientFirebaseId, ""))
             quantity_needed == GetNum(ingredient_data.quantityNeeded, 0)
         IN  IF ingredient_product_id = NULLSTR
             THEN [raised |-> TRUE, list |-> max_servings_list]
             ELSE IF SkipsLine(ingredient_product_id, quantity_needed)
             THEN MaxServingsLoop(Tail(docs), max_servings_list)
             ELSE IF ingredient_product_id \notin DOMAIN products_col
             THEN MaxServingsLoop(Tail(docs), max_servings_list \o UnresolvedCandidates)
             ELSE IF quantity_needed.t = "null"
             THEN [raised |-> TRUE, list |-> max_servings_list]
             ELSE MaxServingsLoop(Tail(docs),
                      Append(max_servings_list,
                             MaxForThisIngredient(products_col[ingredient_product_id].quantity,
                                                  quantity_needed.v)))

\* the function's return value: the bottleneck, or None from the except branch
calculate_max_servings(product_firebase_id, recipe_id) ==
    LET r == MaxServingsLoop(IngredientsOf(recipe_id), <<>>)
    IN  IF r.raised THEN None ELSE Some(Bottleneck(r.list))

(***************************************************************************)
(* inventory_view (views.py 423-565)                                       *)
(***************************************************************************)
\* key under which a recipe document is entered in recipes_by_name
RecipeNameKey(recipe_data) == Strip(Lower(GetStr(recipe_data.productName, "")))

\* recipes_by_id and recipes_by_name are dicts filled in stream order: a key keeps the
\* document stored last under it.
\* "doc.id in recipes_by_id": entered only "if product_id:" (not None, not empty)
InRecipesById(doc_id) ==
    doc_id # "" /\ \E i \in 1..Len(recipes_col) :
        GetStr(recipes_col[i].productFirebaseId, "") = doc_id

\* recipes_by_id[doc_id]['recipeId']
RecipeIdById(doc_id) ==
    LET hits == {i \in 1..Len(recipes_col) :
                    GetStr(recipes_col[i].productFirebaseId, "") = doc_id}
    IN  recipes_col[CHOOSE i \in hits : \A j \in hits : j <= i].id

\* "name in recipes_by_name": entered only "if product_name:"
InRecipesByName(name_key) ==
    name_key # "" /\ \E i \in 1..Len(recipes_col) : RecipeNameKey(recipes_col[i]) = name_key

\* recipes_by_name[name_key]['recipeId']
RecipeIdByName(name_key) ==
    LET hits == {i \in 1..Len(recipes_col) : RecipeNameKey(recipes_col[i]) = name_key}
    IN  recipes_col[CHOOSE i \in hits : \A j \in hits : j <= i].id

\* the category lists of the normalisation (views.py 474-481)
BeverageCategoriesInventory ==
    {"beverage", "beverages", "drink", "drinks", "hot drinks", "cold drinks",
     "hot drink", "cold drink"}
PastryCategories == {"pastries", "pastry", "pastrie", "snacks", "snack"}
IngredientCategories == {"ingredients", "ingredient"}

NormalizeCategory(raw_category) ==
    LET category_lower == Strip(Lower(raw_category))
    IN  IF category_lower \in BeverageCategoriesInventory THEN "beverage"
        ELSE IF category_lower \in PastryCategories THEN "pastries"
        ELSE IF category_lower \in IngredientCategories THEN "ingredients"
        ELSE category_lower

\* max_servings and has_recipe of one product (views.py 516-532)
RecipeMatch(doc_id, data, category) ==
    LET product_name_key == Strip(Lower(GetStr(data.name, "")))
    IN  IF category # "beverage"
        THEN [max_servings |-> None, has_recipe |-> FALSE]
        ELSE IF InRecipesById(doc_id)
        THEN [max_servings |-> calculate_max_servings(doc_id, RecipeIdById(doc_id)),
              has_recipe |-> TRUE]
        ELSE IF InRecipesByName(product_name_key)
        THEN [max_servings |-> calculate_max_servings(doc_id, RecipeIdByName(product_name_key)),
              has_recipe |-> TRUE]
        ELSE [max_servings |-> None, has_recipe |-> FALSE]

\* the dict appended to products_data for one document (views.py 534-544)
ProductRow(doc_id) ==
    LET data == products_col[doc_id]
        category == NormalizeCategory(GetStr(data.category, "Unknown"))
        m == RecipeMatch(doc_id, data, category)
    IN  [id |-> doc_id,
         name |-> GetStr(data.name, "Unknown"),
         category |-> category,
         stock |-> data.quantity,
         max_servings |-> m.max_servings,
         has_recipe |-> m.has_recipe]

\* the product names of the model in Python's string order
NameOrder == <<"Latte", "Latte ", "Milk", "Sugar", "Unknown">>
NameRank(name) == CHOOSE i \in 1..Len(NameOrder) : NameOrder[i] = name

\* products_data.sort(key=lambda x: x['name'])
RECURSIVE SortByName(_)
SortByName(rows) ==
    IF rows = {} THEN <<>>
    ELSE LET first == CHOOSE r \in rows :
                 \A o \in rows : NameRank(r.name) <= NameRank(o.name)
         IN  <<first>> \o SortByName(rows \ {first})

inventory_view ==
    /\ products_data' = SortByName({ProductRow(doc_id) : doc_id \in DOMAIN products_col})
    /\ UNCHANGED <<firestore_vars, max_servings, local_vars, MLPrediction, MLModel, training,
                   forecast>>

\* a call of the helper on a recipe document of the store
CalculateMaxServings ==
    /\ \E i \in 1..Len(recipes_col) :
          max_servings' = [called |-> TRUE,
                           recipe_id |-> recipes_col[i].id,
                           result |-> calculate_max_servings(
                                         GetStr(recipes_col[i].productFirebaseId, ""),
                                         recipes_col[i].id)]
    /\ UNCHANGED <<firestore_vars, products_data, local_vars, MLPrediction, MLModel, training,
                   forecast>>

(***************************************************************************)
(* train_forecasting_model (views.py 2091-2278)                            *)
(***************************************************************************)
\* a null foreign key (sale.product, recipe_ingredient.ingredient)
NoFk == 0

\* a dict: a function with a finite domain; {} is the function with the empty domain
EmptyDict == <<>>

\* defaultdict(lambda: defaultdict(float)): d[k1][k2] += amount
AddTo(d, k1, k2, amount) ==
    LET inner == IF k1 \in DOMAIN d THEN d[k1] ELSE EmptyDict
        old == IF k2 \in DOMAIN inner THEN inner[k2] ELSE 0
        updated == [e \in (DOMAIN inner) \cup {k2} |->
                       IF e = k2 THEN old + amount ELSE inner[e]]
    IN  [k \in (DOMAIN d) \cup {k1} |-> IF k = k1 THEN updated ELSE d[k]]

\* order_date__gte=start_date, order_date__lte=end_date: the sales of the last 90 days.
\* Days are numbered from the start of the window; day 0 is older than the window.
InWindow(sale) == sale.order_date >= 1

\* Sale.objects.filter(...): the rows of the window, in table order
WindowSales == SelectSeq(Sale, InWindow)

\* "product = sale.product", else Product.objects.get(name=sale.product_name):
\* found, DoesNotExist, or MultipleObjectsReturned
ResolveProduct(sale) ==
    IF sale.product # NoFk THEN [outcome |-> "found", id |-> sale.product]
    ELSE LET named == {id \in DOMAIN Product : Product[id].name = sale.product_name}
         IN  IF named = {} THEN [outcome |-> "DoesNotExist", id |-> NoFk]
             ELSE IF Cardinality(named) = 1
             THEN [outcome |-> "found", id |-> CHOOSE id \in named : TRUE]
             ELSE [outcome |-> "MultipleObjectsReturned", id |-> NoFk]

\* the categories that classify a sale as a beverage sale (views.py 2146)
BeverageCategoriesTraining ==
    {"beverage", "beverages", "drink", "drinks", "hot drinks", "cold drinks"}

\* variant: the sale is classified by the current category of its product
IsBeverageByProduct(sale) ==
    LET r == ResolveProduct(sale)
    IN  r.outcome = "found" /\ Lower(Product[r.id].category) \in BeverageCategoriesTraining

\* "category = sale.category.lower() if sale.category else ''; is_beverage = ..."
IsBeverage(sale) ==
    (IF sale.category # "" THEN Lower(sale.category) ELSE "") \in BeverageCategoriesTraining

\* The first loop (views.py 2133-2155): a fold over the sales of the window.  A sale
\* whose product does not resolve leaves the body ("continue") before
\* "total_records += 1".
\* acc = [product_daily_sales, beverage_daily_sales, total_records, raised]
RECURSIVE AggregateSales(_, _)
AggregateSales(sales, acc) ==
    IF sales = <<>> \/ acc.raised THEN acc
    ELSE LET sale == Head(sales)
             r == ResolveProduct(sale)
         IN  IF r.outcome = "MultipleObjectsReturned"
             THEN [acc EXCEPT !.raised = TRUE]
             ELSE IF r.outcome = "DoesNotExist"
             THEN AggregateSales(Tail(sales), acc)
             ELSE IF IsBeverage(sale)
             THEN AggregateSales(Tail(sales),
                      [acc EXCEPT !.beverage_daily_sales =
                                      AddTo(@, r.id, sale.order_date, sale.quantity),
                                  !.total_records = @ + 1])
             ELSE AggregateSales(Tail(sales),
                      [acc EXCEPT !.product_daily_sales =
                                      AddTo(@, r.id, sale.order_date, sale.quantity),
                                  !.total_records = @ + 1])

\* variant: a beverage without recipe is an error instead of DoesNotExist
GetRecipeStrict(beverage_id) ==
    LET hits == {i \in 1..Len(Recipe) : Recipe[i].product = beverage_id}
    IN  IF Cardinality(hits) = 1
        THEN [outcome |-> "found", id |-> Recipe[CHOOSE i \in hits : TRUE].id]
        ELSE [outcome |-> "MultipleObjectsReturned", id |-> 0]

\* Recipe.objects.get(product=beverage): found, DoesNotExist or MultipleObjectsReturned
GetRecipe(beverage_id) ==
    LET hits == {i \in 1..Len(Recipe) : Recipe[i].product = beverage_id}
    IN  IF hits = {} THEN [outcome |-> "DoesNotExist", id |-> 0]
        ELSE IF Cardinality(hits) = 1
        THEN [outcome |-> "found", id |-> Recipe[CHOOSE i \in hits : TRUE].id]
        ELSE [outcome |-> "MultipleObjectsReturned", id |-> 0]

\* recipe.ingredients.all(): the lines of the recipe, in table order
RecipeLines(recipe_id) ==
    SelectSeq(RecipeIngredient, LAMBDA line : line.recipe = recipe_id)

\* variant: the cups sold are booked on the ingredient as they are
IngredientUsedFlat(quantity_sold, quantity_needed) == quantity_sold

\* "ingredient_used = quantity_sold * recipe_ingredient.quantity_needed"
IngredientUsed(quantity_sold, quantity_needed) == quantity_sold * quantity_needed

\* the loop over the lines for one day (views.py 2176-2184)
RECURSIVE ExpandLines(_, _, _, _)
ExpandLines(lines, date_str, quantity_sold, product_daily_sales) ==
    IF lines = <<>> THEN product_daily_sales
    ELSE LET recipe_ingredient == Head(lines)
         IN  IF recipe_ingredient.ingredient # NoFk
             THEN ExpandLines(Tail(lines), date_str, quantity_sold,
                      AddTo(product_daily_sales, recipe_ingredient.ingredient, date_str,
                            IngredientUsed(quantity_sold, recipe_ingredient.quantity_needed)))
             ELSE ExpandLines(Tail(lines), date_str, quantity_sold, product_daily_sales)

\* the loop over the days of one beverage (views.py 2174-2186)
RECURSIVE ExpandDays(_, _, _, _)
ExpandDays(days, daily_sales, lines, product_daily_sales) ==
    IF days = {} THEN product_daily_sales
    ELSE LET date_str == CHOOSE d \in days : \A e \in days : d <= e
         IN  ExpandDays(days \ {date_str}, daily_sales, lines,
                 ExpandLines(lines, date_str, daily_sales[date_str], product_daily_sales))

\* The second loop (views.py 2164-2190): a fold over the beverages with sales.
\* acc = [product_daily_sales, raised]; a beverage without recipe is skipped.
RECURSIVE ExpandBeverages(_, _, _)
ExpandBeverages(beverage_ids, beverage_daily_sales, acc) ==
    IF beverage_ids = {} \/ acc.raised THEN acc
    ELSE LET beverage_id == CHOOSE b \in beverage_ids : \A c \in beverage_ids : b <= c
             recipe == GetRecipe(beverage_id)
             rest == beverage_ids \ {beverage_id}
         IN  IF recipe.outcome = "MultipleObjectsReturned"
             THEN [acc EXCEPT !.raised = TRUE]
             ELSE IF recipe.outcome = "DoesNotExist"
             THEN ExpandBeverages(rest, beverage_daily_sales, acc)
             ELSE ExpandBeverages(rest, beverage_daily_sales,
                      [acc EXCEPT !.product_daily_sales =
                          ExpandDays(DOMAIN beverage_daily_sales[beverage_id],
                                     beverage_daily_sales[beverage_id],
                                     RecipeLines(recipe.id), @)])

\* a float as an exact rational n/d, d > 0
Rat(n, d) == [n |-> n, d |-> d]

\* the integer nearest to n/d (d > 0), ties to the even one
RoundHalfEven(n, d) ==
    LET f == n \div d
        r == n - f * d
    IN  IF 2 * r < d THEN f
        ELSE IF 2 * r > d THEN f + 1
        ELSE IF f % 2 = 0 THEN f ELSE f + 1

\* round(x, 2) and round(x, 3), as a number of hundredths and of thousandths
Round2(x) == RoundHalfEven(100 * x.n, x.d)
Round3(x) == RoundHalfEven(1000 * x.n, x.d)

MinDataPoints == 3      \* "if len(daily_sales) < 3: continue"
TrendWindow == 7        \* quantities[-7:], quantities[:7]
Accuracy == 85          \* 'accuracy': 85
TrainingPeriodDays == 90

\* "sales_list = sorted(daily_sales.items()); quantities = [q for d, q in sales_list]"
RECURSIVE Quantities(_)
Quantities(daily_sales) ==
    IF DOMAIN daily_sales = {} THEN <<>>
    ELSE LET first == CHOOSE d \in DOMAIN daily_sales : \A e \in DOMAIN daily_sales : d <= e
         IN  <<daily_sales[first]>> \o
             Quantities([e \in (DOMAIN daily_sales) \ {first} |-> daily_sales[e]])

\* quantities[-7:]
LastWindow(quantities) ==
    SubSeq(quantities, Len(quantities) - TrendWindow + 1, Len(quantities))

\* quantities[:7]
FirstWindow(quantities) == SubSeq(quantities, 1, TrendWindow)

\* variant: the last three points below 7 points
RecentSalesLastThree(quantities) ==
    IF Len(quantities) >= TrendWindow THEN LastWindow(quantities)
    ELSE SubSeq(quantities, Len(quantities) - 2, Len(quantities))

\* "recent_sales = quantities[-7:] if len(quantities) >= 7 else quantities"
RecentSales(quantities) ==
    IF Len(quantities) >= TrendWindow THEN LastWindow(quantities) ELSE quantities

\* "avg_daily_usage = sum(recent_sales) / len(recent_sales)"
AvgDailyUsage(quantities) ==
    Rat(SeqSum(RecentSales(quantities)), Len(RecentSales(quantities)))

\* "trend = (new_avg - old_avg) / old_avg if old_avg > 0 else 0", 0 below 7 points;
\* old_avg = old / 7 and new_avg = new / 7, so the quotient is (new - old) / old
Trend(quantities) ==
    IF Len(quantities) >= TrendWindow
    THEN LET old == SeqSum(FirstWindow(quantities))
             new == SeqSum(LastWindow(quantities))
         IN  IF old > 0 THEN Rat(new - old, old) ELSE Rat(0, 1)
    ELSE Rat(0, 1)

\* variant: the trend applied in full, avg_daily_usage * (1 + trend)
PredictedDailyUsageUndamped(avg_daily_usage, trend) ==
    Rat(avg_daily_usage.n * (trend.d + trend.n), avg_daily_usage.d * trend.d)

\* "predicted_daily_usage = avg_daily_usage * (1 + trend * 0.1)"
PredictedDailyUsage(avg_daily_usage, trend) ==
    Rat(avg_daily_usage.n * (10 * trend.d + trend.n), avg_daily_usage.d * 10 * trend.d)

\* round(max(0.5, min(0.95, 1 - std_dev / (avg_daily_usage + 1))), 2) in hundredths,
\* for 7 recent values of sum S (S > -7).  With W the sum of (7q - S)^2 over them,
\* variance = W / 343 and (std_dev / (avg_daily_usage + 1))^2 = W / (7 (S + 7)^2);
\* the ratio is compared with the half-hundredths h / 200 through
\* 40000 W <=> h^2 * 7 (S + 7)^2.
RECURSIVE SquaredDeviations(_, _)
SquaredDeviations(recent, S) ==
    IF recent = <<>> THEN 0
    ELSE (TrendWindow * Head(recent) - S) * (TrendWindow * Head(recent) - S)
         + SquaredDeviations(Tail(recent), S)

\* variant: no lower clamp, min(0.95, 1 - std_dev / (avg_daily_usage + 1))
ClampedConfidenceNoFloor(recent) ==
    LET S == SeqSum(recent)
        X == 40000 * SquaredDeviations(recent, S)
        D == 7 * (S + 7) * (S + 7)
    IN  IF X <= 100 * D THEN 95
        ELSE CHOOSE j \in -400..95 :
                 /\ (199 - 2 * j) * (199 - 2 * j) * D <= X
                 /\ X < (201 - 2 * j) * (201 - 2 * j) * D

ClampedConfidence(recent) ==
    LET S == SeqSum(recent)
        X == 40000 * SquaredDeviations(recent, S)
        D == 7 * (S + 7) * (S + 7)
    IN  IF X <= 100 * D THEN 95
        ELSE IF X >= 10000 * D THEN 50
        ELSE LET k == CHOOSE j \in 50..95 :
                          /\ (199 - 2 * j) * (199 - 2 * j) * D <= X
                          /\ X < (201 - 2 * j) * (201 - 2 * j) * D
             IN  IF X = (199 - 2 * k) * (199 - 2 * k) * D /\ k % 2 = 1 THEN k + 1 ELSE k

\* the confidence score in hundredths: the clamped formula from 7 points on, else 0.6
Confidence(quantities) ==
    IF Len(quantities) >= TrendWindow THEN ClampedConfidence(RecentSales(quantities))
    ELSE 60

\* the values computed for one product before rounding (views.py 2203-2226)
Fit(daily_sales) ==
    LET quantities == Quantities(daily_sales)
        avg_daily_usage == AvgDailyUsage(quantities)
        trend == Trend(quantities)
    IN  [quantities |-> quantities,
         avg_daily_usage |-> avg_daily_usage,
         trend |-> trend,
         predicted_daily_usage |-> PredictedDailyUsage(avg_daily_usage, trend),
         confidence |-> Confidence(quantities)]

\* the defaults of MLPrediction.objects.update_or_create (views.py 2229-2238):
\* usage figures and confidence in hundredths, trend in thousandths
PredictionDefaults(fit) ==
    [predicted_daily_usage |-> Round2(fit.predicted_daily_usage),
     avg_daily_usage |-> Round2(fit.avg_daily_usage),
     trend |-> Round3(fit.trend),
     confidence_score |-> fit.confidence,
     data_points |-> Len(fit.quantities)]

\* variant: a row is added on every call
UpdateOrCreateAppend(table, key_field, key, defaults) ==
    Append(table, [f \in {key_field} \cup DOMAIN defaults |->
                      IF f = key_field THEN key ELSE defaults[f]])

\* update_or_create(key, defaults) on a table of rows: the row with the key is
\* overwritten, a row is added when there is none
UpdateOrCreate(table, key_field, key, defaults) ==
    LET hits == {i \in 1..Len(table) : table[i][key_field] = key}
        row == [f \in {key_field} \cup DOMAIN defaults |->
                   IF f = key_field THEN key ELSE defaults[f]]
    IN  IF hits = {} THEN Append(table, row)
        ELSE [i \in 1..Len(table) |-> IF i \in hits THEN row ELSE table[i]]

\* variant: one day is enough
EnoughDataAny(daily_sales) == Cardinality(DOMAIN daily_sales) >= 1

\* "if len(daily_sales) < 3: continue"
EnoughData(daily_sales) == Cardinality(DOMAIN daily_sales) >= MinDataPoints

\* variant: predictions_saved counts the rows created, not the rows written
RECURSIVE SavePredictionsCountCreated(_, _, _)
SavePredictionsCountCreated(product_ids, product_daily_sales, acc) ==
    IF product_ids = {} THEN acc
    ELSE LET product_id == CHOOSE p \in product_ids : \A q \in product_ids : p <= q
             rest == product_ids \ {product_id}
             created == \A k \in 1..Len(acc.MLPrediction) :
                            acc.MLPrediction[k].product # product_id
         IN  IF ~EnoughData(product_daily_sales[product_id])
             THEN SavePredictionsCountCreated(rest, product_daily_sales, acc)
             ELSE SavePredictionsCountCreated(rest, product_daily_sales,
                      [MLPrediction |->
                           UpdateOrCreate(acc.MLPrediction, "product", product_id,
                               PredictionDefaults(Fit(product_daily_sales[product_id]))),
                       predictions_saved |->
                           acc.predictions_saved + (IF created THEN 1 ELSE 0)])

\* The third loop (views.py 2197-2241): a fold over the products with a series.
\* acc = [MLPrediction, predictions_saved]
RECURSIVE SavePredictions(_, _, _)
SavePredictions(product_ids, product_daily_sales, acc) ==
    IF product_ids = {} THEN acc
    ELSE LET product_id == CHOOSE p \in product_ids : \A q \in product_ids : p <= q
             rest == product_ids \ {product_id}
         IN  IF ~EnoughData(product_daily_sales[product_id])
             THEN SavePredictions(rest, product_daily_sales, acc)
             ELSE SavePredictions(rest, product_daily_sales,
                      [MLPrediction |->
                           UpdateOrCreate(acc.MLPrediction, "product", product_id,
                               PredictionDefaults(Fit(product_daily_sales[product_id]))),
                       predictions_saved |-> acc.predictions_saved + 1])

\* variant: the model counts as trained only when the run saved a prediction
ModelDefaultsTrainedIfSaved(total_records, products_analyzed, predictions_saved) ==
    [is_trained |-> predictions_saved > 0,
     total_records |-> total_records,
     products_analyzed |-> products_analyzed,
     predictions_generated |-> predictions_saved,
     accuracy |-> Accuracy,
     model_type |-> "Recipe-Based Linear Regression (Moving Average)",
     training_period_days |-> TrainingPeriodDays]

\* the defaults of MLModel.objects.update_or_create (views.py 2244-2256); last_trained,
\* the time of the run, is left out
ModelDefaults(total_records, products_analyzed, predictions_saved) ==
    [is_trained |-> TRUE,
     total_records |-> total_records,
     products_analyzed |-> products_analyzed,
     predictions_generated |-> predictions_saved,
     accuracy |-> Accuracy,
     model_type |-> "Recipe-Based Linear Regression (Moving Average)",
     training_period_days |-> TrainingPeriodDays]

\* the JSON of a successful run (views.py 2260-2268)
SuccessResponse(predictions_saved, total_records, beverages, products) ==
    [success |-> TRUE,
     predictions_generated |-> predictions_saved,
     total_records |-> total_records,
     beverages_processed |-> beverages,
     non_beverages_processed |-> products - beverages,
     accuracy |-> Accuracy]

\* the JSON of the except branch (views.py 2270-2278)
ErrorResponse ==
    [success |-> FALSE, predictions_generated |-> 0, total_records |-> 0,
     beverages_processed |-> 0, non_beverages_processed |-> 0, accuracy |-> 0]

\* the three loops of a run, on the tables of the current state
FirstLoop ==
    AggregateSales(WindowSales,
        [product_daily_sales |-> EmptyDict, beverage_daily_sales |-> EmptyDict,
         total_records |-> 0, raised |-> FALSE])

SecondLoop(first) ==
    ExpandBeverages(DOMAIN first.beverage_daily_sales, first.beverage_daily_sales,
        [product_daily_sales |-> first.product_daily_sales, raised |-> first.raised])

\* variant: the table is rebuilt from the products fitted in this run
ThirdLoopFresh(second) ==
    SavePredictions(DOMAIN second.product_daily_sales, second.product_daily_sales,
        [MLPrediction |-> <<>>, predictions_saved |-> 0])

ThirdLoop(second) ==
    SavePredictions(DOMAIN second.product_daily_sales, second.product_daily_sales,
        [MLPrediction |-> MLPrediction, predictions_saved |-> 0])

\* The handler.  An exception of the first two loops reaches the except branch before
\* anything is written.
train_forecasting_model ==
    LET first == FirstLoop
        second == SecondLoop(first)
        third == ThirdLoop(second)
        series == second.product_daily_sales
    IN  IF second.raised
        THEN /\ training' = [ran |-> TRUE,
                             product_daily_sales |-> EmptyDict,
                             beverage_daily_sales |-> EmptyDict,
                             fits |-> EmptyDict,
                             response |-> ErrorResponse]
             /\ UNCHANGED <<MLPrediction, MLModel>>
             /\ UNCHANGED <<firestore_vars, max_servings, products_data, local_vars, forecast>>
        ELSE /\ MLPrediction' = third.MLPrediction
             /\ MLModel' = UpdateOrCreate(MLModel, "name", "inventory_forecasting",
                               ModelDefaults(first.total_records,
                                             Cardinality(DOMAIN series),
                                             third.predictions_saved))
             /\ training' = [ran |-> TRUE,
                             product_daily_sales |-> series,
                             beverage_daily_sales |-> first.beverage_daily_sales,
                             fits |-> [p \in {q \in DOMAIN series : EnoughData(series[q])}
                                          |-> Fit(series[p])],
                             response |-> SuccessResponse(third.predictions_saved,
                                              first.total_records,
                                              Cardinality(DOMAIN first.beverage_daily_sales),
                                              Cardinality(DOMAIN series))]
             /\ UNCHANGED <<firestore_vars, max_servings, products_data, local_vars, forecast>>

\* A run that leaves the third loop or the MLModel write by an exception (a product
\* deleted before "Product.objects.get(id=product_id)", a failed write): the rows
\* written before it stay, each update_or_create being committed on its own, and the
\* except branch answers.  The products up to product id m were written; the MLModel
\* row was written or not when all were.
train_forecasting_model_aborted ==
    LET first == FirstLoop
        second == SecondLoop(first)
        series == second.product_daily_sales
    IN  /\ ~second.raised
        /\ \E m \in 0..Len(Product) :
              LET third == SavePredictions({p \in DOMAIN series : p <= m}, series,
                               [MLPrediction |-> MLPrediction, predictions_saved |-> 0])
              IN  /\ MLPrediction' = third.MLPrediction
                  /\ \/ UNCHANGED MLModel
                     \/ /\ m = Len(Product)
                        /\ MLModel' = UpdateOrCreate(MLModel, "name", "inventory_forecasting",
                                          ModelDefaults(first.total_records,
                                                        Cardinality(DOMAIN series),
                                                        third.predictions_saved))
        /\ training' = [ran |-> TRUE,
                        product_daily_sales |-> series,
                        beverage_daily_sales |-> first.beverage_daily_sales,
                        fits |-> EmptyDict,
                        response |-> ErrorResponse]
        /\ UNCHANGED <<firestore_vars, max_servings, products_data, local_vars, forecast>>

(***************************************************************************)
(* inventory_forecasting_view (views.py 1823-2086)                         *)
(***************************************************************************)
Unbounded == 999        \* "days_left = 999", the sentinel of a product without usage
CriticalDays == 3       \* "if days_left <= 3"
WarningDays == 7        \* "elif days_left <= 7", "if days_left <= 7"
ReorderDays == 30       \* "(predicted_daily_usage * 30) - stock"

\* the categories of category__iexact (views.py 1911-1918), compared in lower case
ExcludedCategories == {"beverages", "beverage", "drinks", "drink"}

\* name__icontains on 'Water', 'Ice', 'Tea bags', 'Teabag', 'sdfsdfg', 'suka'
\* (views.py 1919-1930), on the names of the model
NameExcluded(name) == name \in {"Ice", "Rice", "Water"}

\* Product.objects.exclude(...): the ids of the products kept, in id order
ForecastProducts ==
    SelectSeq([i \in 1..Len(Product) |-> i],
              LAMBDA id : /\ Lower(Product[id].category) \notin ExcludedCategories
                          /\ ~NameExcluded(Product[id].name))

\* MLPrediction.objects.get(product=product): found, DoesNotExist or
\* MultipleObjectsReturned
GetPrediction(product_id) ==
    LET hits == {k \in 1..Len(MLPrediction) : MLPrediction[k].product = product_id}
    IN  IF hits = {} THEN [outcome |-> "DoesNotExist", row |-> <<>>]
        ELSE IF Cardinality(hits) = 1
        THEN [outcome |-> "found", row |-> MLPrediction[CHOOSE k \in hits : TRUE]]
        ELSE [outcome |-> "MultipleObjectsReturned", row |-> <<>>]

\* variant: a usage of 0 passes the test
UsagePositiveOrZero(predicted_daily_usage) == predicted_daily_usage >= 0

\* "if predicted_daily_usage > 0"
UsagePositive(predicted_daily_usage) == predicted_daily_usage > 0

\* "int(stock / predicted_daily_usage)", the usage in hundredths; ZeroDivisionError
\* when the usage is 0
StockOverUsage(stock, predicted_daily_usage) ==
    IF predicted_daily_usage = 0 THEN [raised |-> TRUE, val |-> 0]
    ELSE [raised |-> FALSE, val |-> IntDiv(100 * stock, predicted_daily_usage)]

\* the days left (views.py 1961-1965)
DaysLeft(stock, predicted_daily_usage) ==
    IF UsagePositive(predicted_daily_usage)
    THEN StockOverUsage(stock, predicted_daily_usage)
    ELSE [raised |-> FALSE, val |-> Unbounded]

\* a rendered number of days: an int, or 'N/A'
NA == [na |-> TRUE, val |-> 0]
Shown(n) == [na |-> FALSE, val |-> n]

\* "days_left if days_left < 999 else 'N/A'"
ShownDaysLeft(days_left) == IF days_left < Unbounded THEN Shown(days_left) ELSE NA

\* the depletion date as a number of days from now (views.py 1967-1971)
DepletionDate(days_left) == IF days_left < Unbounded THEN Shown(days_left) ELSE NA

\* variant: the bounds of the tiers are exclusive
StatusExclusive(days_left) ==
    IF days_left < CriticalDays THEN "critical"
    ELSE IF days_left < WarningDays THEN "warning"
    ELSE "healthy"

\* the status (views.py 1973-1985)
Status(days_left) ==
    IF days_left <= CriticalDays THEN "critical"
    ELSE IF days_left <= WarningDays THEN "warning"
    ELSE "healthy"

\* variant: only the critical rows need reorder
NeedsReorderCritical(days_left) == days_left <= CriticalDays

\* "if days_left <= 7: summary['needs_reorder'] += 1"
NeedsReorder(days_left) == days_left <= WarningDays

\* variant: no reorder quantity on the last day of the warning tier
ReorderQtyBeforeWarningEnds(days_left, predicted_daily_usage, stock) ==
    IF days_left < WarningDays
    THEN LET need == ReorderDays * predicted_daily_usage - 100 * stock
         IN  Rat(IF need > 0 THEN need ELSE 0, 100)
    ELSE Rat(0, 1)

\* variant: a buffer of 7 days
ReorderQtyWeek(days_left, predicted_daily_usage, stock) ==
    IF days_left <= WarningDays
    THEN LET need == 7 * predicted_daily_usage - 100 * stock
         IN  Rat(IF need > 0 THEN need ELSE 0, 100)
    ELSE Rat(0, 1)

\* the reorder quantity (views.py 1994-1998), the usage in hundredths
ReorderQty(days_left, predicted_daily_usage, stock) ==
    IF days_left <= WarningDays
    THEN LET need == ReorderDays * predicted_daily_usage - 100 * stock
         IN  Rat(IF need > 0 THEN need ELSE 0, 100)
    ELSE Rat(0, 1)

\* f"{x:.2f}": the number of hundredths shown
Format2(x) == RoundHalfEven(100 * x.n, x.d)

\* The body of the loop over the products (views.py 1935-2021) for one product:
\* [raised, days_left, row]
ForecastEntry(product_id) ==
    LET product == Product[product_id]
        prediction == GetPrediction(product_id)
        found == prediction.outcome = "found"
        predicted_daily_usage == IF found THEN prediction.row.predicted_daily_usage ELSE 0
        avg_daily_usage == IF found THEN prediction.row.avg_daily_usage ELSE 0
        stock == IF product.stock # 0 THEN product.stock ELSE 0
        days == DaysLeft(stock, predicted_daily_usage)
        days_left == days.val
    IN  [raised |-> prediction.outcome = "MultipleObjectsReturned" \/ days.raised,
         days_left |-> days_left,
         row |-> [product_id |-> product_id,
                  product_name |-> product.name,
                  category |-> product.category,
                  current_stock |-> Format2(Rat(stock, 1)),
                  avg_daily_usage |-> Format2(Rat(avg_daily_usage, 100)),
                  days_left |-> ShownDaysLeft(days_left),
                  depletion_date |-> DepletionDate(days_left),
                  status |-> Status(days_left),
                  predicted_usage |-> Format2(Rat(7 * predicted_daily_usage, 100)),
                  reorder_qty |-> Format2(ReorderQty(days_left, predicted_daily_usage, stock))]]

\* variant: a row shown as 'N/A' sorts first
SortKeyFirst(row) == IF row.days_left.na THEN 0 ELSE row.days_left.val

\* "key=lambda x: x['days_left'] if isinstance(x['days_left'], int) else 999"
SortKey(row) == IF row.days_left.na THEN Unbounded ELSE row.days_left.val

\* list.sort is stable: a row goes after the rows whose key is not greater
RECURSIVE InsertByDaysLeft(_, _)
InsertByDaysLeft(sorted, row) ==
    IF sorted = <<>> THEN <<row>>
    ELSE IF SortKey(Head(sorted)) <= SortKey(row)
    THEN <<Head(sorted)>> \o InsertByDaysLeft(Tail(sorted), row)
    ELSE <<row>> \o sorted

\* "forecast_data.sort(key=...)" (views.py 2024)
RECURSIVE SortByDaysLeft(_)
SortByDaysLeft(rows) ==
    IF rows = <<>> THEN <<>>
    ELSE InsertByDaysLeft(SortByDaysLeft(SubSeq(rows, 1, Len(rows) - 1)), rows[Len(rows)])

\* the summary after the loop (views.py 1904-1909, 1973-1989): a counter is the
\* number of products whose pass through the loop body incremented it
Summary(entries) ==
    LET idx == 1..Len(entries)
    IN  [critical |-> Cardinality({i \in idx : Status(entries[i].days_left) = "critical"}),
         low |-> Cardinality({i \in idx : Status(entries[i].days_left) = "warning"}),
         healthy |-> Cardinality({i \in idx : Status(entries[i].days_left) = "healthy"}),
         needs_reorder |-> Cardinality({i \in idx : NeedsReorder(entries[i].days_left)})]

\* the model status (views.py 1871-1898); last_trained is left out
ModelStatus ==
    LET hits == {k \in 1..Len(MLModel) : MLModel[k].name = "inventory_forecasting"}
    IN  IF hits = {}
        THEN [is_trained |-> FALSE, accuracy |-> 0, total_records |-> 0,
              model_name |-> "Not trained yet", model_type |-> "N/A",
              products_analyzed |-> 0]
        ELSE LET ml_model == MLModel[CHOOSE k \in hits : TRUE]
             IN  [is_trained |-> ml_model.is_trained, accuracy |-> ml_model.accuracy,
                  total_records |-> ml_model.total_records, model_name |-> ml_model.name,
                  model_type |-> ml_model.model_type,
                  products_analyzed |-> ml_model.products_analyzed]

\* the context of the except branch (views.py 2050-2086)
ErrorContext ==
    [rendered |-> TRUE, error |-> TRUE, forecast_data |-> <<>>,
     summary |-> [critical |-> 0, low |-> 0, healthy |-> 0, needs_reorder |-> 0],
     model_status |-> [is_trained |-> FALSE, accuracy |-> 0, total_records |-> 0,
                       model_name |-> "Error", model_type |-> "N/A",
                       products_analyzed |-> 0]]

\* The handler.  An exception of the loop reaches the except branch, which renders
\* an empty forecast.
inventory_forecasting_view ==
    LET products == ForecastProducts
        entries == [i \in 1..Len(products) |-> ForecastEntry(products[i])]
    IN  /\ forecast' =
              IF \E i \in 1..Len(entries) : entries[i].raised
              THEN ErrorContext
              ELSE [rendered |-> TRUE, error |-> FALSE,
                    forecast_data |->
                        SortByDaysLeft([i \in 1..Len(entries) |-> entries[i].row]),
                    summary |-> Summary(entries),
                    model_status |-> ModelStatus]
        /\ UNCHANGED <<firestore_vars, max_servings, products_data, local_vars,
                       MLPrediction, MLModel, training>>

(***************************************************************************)
(* Bounded inputs of the Firestore side                                    *)
(***************************************************************************)
MaxLines == 2               \* lines of the recipe under test (feasibility)
MaxInvLines == 1            \* lines of the recipe under test (inventory page)
MaxStock == 3               \* largest ingredient stock
MaxQuantityNeeded == 2      \* largest quantityNeeded of a line

\* ingredientFirebaseId of a line: absent (read as ''), null, padded, plain, or naming
\* no document
LineIds == <<ABSENT, NULLSTR, " milk ", "sugar", "gone">>

\* quantityNeeded of a line: absent, null, negative, zero, positive
LineQuantities ==
    <<Absent, Null, Num(-1)>> \o [i \in 1..(MaxQuantityNeeded + 1) |-> Num(i - 1)]

NLineTypes == Len(LineIds) * Len(LineQuantities)

LineType(i, recipe_id) ==
    [recipeFirebaseId |-> recipe_id,
     ingredientFirebaseId |-> LineIds[((i - 1) % Len(LineIds)) + 1],
     quantityNeeded |-> LineQuantities[((i - 1) \div Len(LineIds)) + 1]]

\* the line sequences of at most n lines, one per multiset of line contents
LineChoices(n, recipe_id) ==
    UNION {{[i \in 1..k |-> LineType(s[i], recipe_id)] :
               s \in {t \in [1..k -> 1..NLineTypes] :
                         \A i \in 1..(k - 1) : t[i] <= t[i + 1]}} : k \in 0..n}

ProductDoc(name, category, quantity) ==
    [name |-> name, category |-> category, quantity |-> quantity]

RecipeDoc(id, product_id, product_name) ==
    [id |-> id, productFirebaseId |-> product_id, productName |-> product_name]

LineDoc(recipe_id, ingredient_id, quantity) ==
    [recipeFirebaseId |-> recipe_id, ingredientFirebaseId |-> ingredient_id,
     quantityNeeded |-> quantity]

ProductsCol(latte_name, latte_category, milk, sugar) ==
    [id \in {"latte", "milk", "sugar"} |->
        CASE id = "latte" -> ProductDoc(latte_name, latte_category, 0)
          [] id = "milk" -> ProductDoc("Milk", "Ingredients", milk)
          [] id = "sugar" -> ProductDoc("Sugar", "Ingredients", sugar)]

NotCalled == [called |-> FALSE, recipe_id |-> "", result |-> None]
NotRendered == <<>>
NotForecast == [rendered |-> FALSE]
NotTrained ==
    [ran |-> FALSE, product_daily_sales |-> <<>>, beverage_daily_sales |-> <<>>,
     fits |-> <<>>, response |-> [success |-> FALSE]]

\* no recipe management endpoint was called and none is in flight
NoResponse == [handler |-> "", success |-> FALSE, message |-> ""]
RecipeApiIdle ==
    /\ recipe_api = NoResponse
    /\ add_requests = <<>>

\* the local tables and the training run are not part of the Firestore specifications
LocalIdle ==
    /\ Product = <<>>
    /\ Sale = <<>>
    /\ Recipe = <<>>
    /\ RecipeIngredient = <<>>
    /\ MLPrediction = <<>>
    /\ MLModel = <<>>
    /\ training = NotTrained
    /\ forecast = NotForecast

\* Feasibility: recipe r1 of the latte with every content of its lines, recipe r2 of
\* another product with one line of its own, every stock of the two ingredients.
InitFeas ==
    /\ \E milk \in 0..MaxStock, sugar \in 0..MaxStock :
          products_col = ProductsCol("Latte", "Hot Drinks", milk, sugar)
    /\ recipes_col = <<RecipeDoc("r1", "latte", "Latte"), RecipeDoc("r2", "mocha", "Mocha")>>
    /\ \E lines \in LineChoices(MaxLines, "r1") :
          recipe_ingredients_col = lines \o <<LineDoc("r2", "gone", Num(1))>>
    /\ max_servings = NotCalled
    /\ products_data = NotRendered
    /\ RecipeApiIdle
    /\ LocalIdle

NextFeas == CalculateMaxServings

SpecFeas == InitFeas /\ [][NextFeas]_vars

\* Inventory page: the latte under a beverage or a pastry category; recipe r1 absent,
\* or for the latte or another product by id, under the latte's or another name;
\* recipe r2 absent, or matching the latte by name only, or by id; every content of
\* r1's lines; r2 needs one unit of milk.
InventoryCategories == {"Hot Drinks ", "Pastries"}

RecipeR1Choices ==
    {<<>>} \cup {<<RecipeDoc("r1", pid, pname)>> :
                    pid \in {"latte", "mocha", ABSENT}, pname \in {"Latte ", "Mocha"}}

RecipeR2Choices ==
    {<<>>, <<RecipeDoc("r2", ABSENT, "Latte")>>, <<RecipeDoc("r2", "latte", "Mocha")>>}

InitInv ==
    /\ \E category \in InventoryCategories, milk \in 0..MaxStock :
          products_col = ProductsCol("Latte", category, milk, 1)
    /\ \E r1 \in RecipeR1Choices, r2 \in RecipeR2Choices : recipes_col = r1 \o r2
    /\ \E lines \in LineChoices(MaxInvLines, "r1") :
          recipe_ingredients_col = lines \o <<LineDoc("r2", " milk ", Num(1))>>
    /\ max_servings = NotCalled
    /\ products_data = NotRendered
    /\ RecipeApiIdle
    /\ LocalIdle

NextInv == inventory_view

SpecInv == InitInv /\ [][NextInv]_vars

(***************************************************************************)
(* Recipe management endpoints (views.py 1646-1815)                        *)
(***************************************************************************)
\* the ids Firestore generates for new recipe documents
RecipeIdPool == {"r1", "r2"}

\* "not product_firebase_id", "not recipe_id": None and '' are false
Falsy(s) == s \in {"", ABSENT, NULLSTR}

\* "recipes_ref.where('productFirebaseId', '==', product_firebase_id).get()"
ExistingRecipes(product_firebase_id) ==
    {i \in 1..Len(recipes_col) : recipes_col[i].productFirebaseId = product_firebase_id}

\* "db.collection('recipes').document(recipe_id)": the positions of the document
RecipeDocument(recipe_id) == {i \in 1..Len(recipes_col) : recipes_col[i].id = recipe_id}

\* an id no document has, no line names and no request in flight holds
FreshIds ==
    {id \in RecipeIdPool :
        /\ RecipeDocument(id) = {}
        /\ \A k \in 1..Len(recipe_ingredients_col) :
              recipe_ingredients_col[k].recipeFirebaseId # id
        /\ \A r \in DOMAIN add_requests : add_requests[r].recipe_id # id}

\* the ingredient_data of the lines of a request
IngredientData(recipe_id, ingredients) ==
    [k \in 1..Len(ingredients) |->
        LineDoc(recipe_id, ingredients[k].ingredientFirebaseId,
                ingredients[k].quantityNeeded)]

\* variant: the lines of the recipe are left in the collection
WithoutLinesKept(recipe_id) == recipe_ingredients_col

\* "for ing in old_ingredients: ing.reference.delete()"
WithoutLines(recipe_id) ==
    SelectSeq(recipe_ingredients_col, LAMBDA line : line.recipeFirebaseId # recipe_id)

Response(handler, success, message) ==
    [handler |-> handler, success |-> success, message |-> message]

\* "if existing: return ... 'Recipe already exists for this product'"
AddRejected(product_firebase_id) == ExistingRecipes(product_firebase_id) # {}

\* add_recipe_api (views.py 1646-1706), one request served alone
add_recipe_api(product_firebase_id, product_name, ingredients) ==
    /\ IF Falsy(product_firebase_id) \/ Falsy(product_name)
       THEN /\ recipe_api' = Response("add_recipe_api", FALSE, "Product information required")
            /\ UNCHANGED <<recipes_col, recipe_ingredients_col>>
       ELSE IF ingredients = <<>>
       THEN /\ recipe_api' =
                   Response("add_recipe_api", FALSE, "At least one ingredient is required")
            /\ UNCHANGED <<recipes_col, recipe_ingredients_col>>
       ELSE IF AddRejected(product_firebase_id)
       THEN /\ recipe_api' =
                   Response("add_recipe_api", FALSE, "Recipe already exists for this product")
            /\ UNCHANGED <<recipes_col, recipe_ingredients_col>>
       ELSE \E recipe_id \in FreshIds :
               /\ recipes_col' =
                      Append(recipes_col, RecipeDoc(recipe_id, product_firebase_id, product_name))
               /\ recipe_ingredients_col' =
                      recipe_ingredients_col \o IngredientData(recipe_id, ingredients)
               /\ recipe_api' = Response("add_recipe_api", TRUE, "created successfully")
    /\ UNCHANGED <<products_col, add_requests, max_servings, products_data, local_vars,
                   MLPrediction, MLModel, training, forecast>>

\* the lines after "Delete old ingredients" and "Add new ingredients"
UpdatedLines(recipe_id, ingredients) ==
    WithoutLines(recipe_id) \o IngredientData(recipe_id, ingredients)

\* update_recipe_api (views.py 1711-1765); "recipe_ref.update" of a document that does
\* not exist raises NotFound and the except branch answers
update_recipe_api(recipe_id, product_firebase_id, product_name, ingredients) ==
    /\ IF Falsy(recipe_id)
       THEN /\ recipe_api' = Response("update_recipe_api", FALSE, "Recipe ID required")
            /\ UNCHANGED <<recipes_col, recipe_ingredients_col>>
       ELSE IF RecipeDocument(recipe_id) = {}
       THEN /\ recipe_api' = Response("update_recipe_api", FALSE, "NotFound")
            /\ UNCHANGED <<recipes_col, recipe_ingredients_col>>
       ELSE /\ recipes_col' =
                   [i \in 1..Len(recipes_col) |->
                       IF i \in RecipeDocument(recipe_id)
                       THEN [recipes_col[i] EXCEPT !.productFirebaseId = product_firebase_id,
                                                   !.productName = product_name]
                       ELSE recipes_col[i]]
            /\ recipe_ingredients_col' = UpdatedLines(recipe_id, ingredients)
            /\ recipe_api' = Response("update_recipe_api", TRUE, "updated successfully")
    /\ UNCHANGED <<products_col, add_requests, max_servings, products_data, local_vars,
                   MLPrediction, MLModel, training, forecast>>

\* delete_recipe_api (views.py 1770-1815)
delete_recipe_api(recipe_id) ==
    /\ IF Falsy(recipe_id)
       THEN /\ recipe_api' = Response("delete_recipe_api", FALSE, "Recipe ID required")
            /\ UNCHANGED <<recipes_col, recipe_ingredients_col>>
       ELSE IF RecipeDocument(recipe_id) = {}
       THEN /\ recipe_api' = Response("delete_recipe_api", FALSE, "Recipe not found")
            /\ UNCHANGED <<recipes_col, recipe_ingredients_col>>
       ELSE /\ recipe_ingredients_col' = WithoutLines(recipe_id)
            /\ recipes_col' = SelectSeq(recipes_col, LAMBDA doc : doc.id # recipe_id)
            /\ recipe_api' = Response("delete_recipe_api", TRUE, "deleted successfully")
    /\ UNCHANGED <<products_col, add_requests, max_servings, products_data, local_vars,
                   MLPrediction, MLModel, training, forecast>>

\* add_recipe_api served next to other requests: every Firestore call of request r is
\* a step of its own.  A request in flight holds its locals:
\* [pc, product_firebase_id, product_name, ingredients, existing, recipe_id, written]
AddRequest(product_firebase_id, product_name, ingredients) ==
    [pc |-> "start", product_firebase_id |-> product_firebase_id,
     product_name |-> product_name, ingredients |-> ingredients,
     existing |-> FALSE, recipe_id |-> "", written |-> 0]

\* the validation and "existing = recipes_ref.where(...).get()" (views.py 1657-1665)
add_recipe_api_query(r) ==
    LET request == add_requests[r]
    IN  /\ request.pc = "start"
        /\ IF Falsy(request.product_firebase_id) \/ Falsy(request.product_name)
           THEN /\ add_requests' = [add_requests EXCEPT ![r].pc = "done"]
                /\ recipe_api' =
                       Response("add_recipe_api", FALSE, "Product information required")
           ELSE IF request.ingredients = <<>>
           THEN /\ add_requests' = [add_requests EXCEPT ![r].pc = "done"]
                /\ recipe_api' =
                       Response("add_recipe_api", FALSE, "At least one ingredient is required")
           ELSE /\ add_requests' =
                       [add_requests EXCEPT ![r].pc = "queried",
                                            ![r].existing =
                                                AddRejected(request.product_firebase_id)]
                /\ UNCHANGED recipe_api
        /\ UNCHANGED <<products_col, recipes_col, recipe_ingredients_col, max_servings,
                       products_data, local_vars, MLPrediction, MLModel, training, forecast>>

\* "if existing: return ..." and "recipe_ref = recipes_ref.add(recipe_data)"
\* (views.py 1667-1678)
add_recipe_api_add(r) ==
    LET request == add_requests[r]
    IN  /\ request.pc = "queried"
        /\ IF request.existing
           THEN /\ add_requests' = [add_requests EXCEPT ![r].pc = "done"]
                /\ recipe_api' =
                       Response("add_recipe_api", FALSE, "Recipe already exists for this product")
                /\ UNCHANGED recipes_col
           ELSE \E recipe_id \in FreshIds :
                   /\ recipes_col' =
                          Append(recipes_col,
                              RecipeDoc(recipe_id, request.product_firebase_id,
                                        request.product_name))
                   /\ add_requests' = [add_requests EXCEPT ![r].pc = "adding",
                                                           ![r].recipe_id = recipe_id]
                   /\ UNCHANGED recipe_api
        /\ UNCHANGED <<products_col, recipe_ingredients_col, max_servings, products_data,
                       local_vars, MLPrediction, MLModel, training, forecast>>

\* one "ingredients_ref.add(ingredient_data)" of the loop, or the response after the
\* last (views.py 1683-1698)
add_recipe_api_ingredient(r) ==
    LET request == add_requests[r]
    IN  /\ request.pc = "adding"
        /\ IF request.written < Len(request.ingredients)
           THEN /\ recipe_ingredients_col' =
                       Append(recipe_ingredients_col,
                           IngredientData(request.recipe_id,
                                          request.ingredients)[request.written + 1])
                /\ add_requests' = [add_requests EXCEPT ![r].written = request.written + 1]
                /\ UNCHANGED recipe_api
           ELSE /\ add_requests' = [add_requests EXCEPT ![r].pc = "done"]
                /\ recipe_api' = Response("add_recipe_api", TRUE, "created successfully")
                /\ UNCHANGED recipe_ingredients_col
        /\ UNCHANGED <<products_col, recipes_col, max_servings, products_data, local_vars,
                       MLPrediction, MLModel, training, forecast>>

\* Bounded requests: the product of a request is missing, the latte or the mocha; its
\* ingredient list has at most MaxApiLines lines, of milk (1) and sugar (2) in turn.
MaxApiLines == 2

ApiProducts ==
    {[id |-> "", name |-> ""], [id |-> "latte", name |-> ""],
     [id |-> "latte", name |-> "Latte"], [id |-> "mocha", name |-> "Mocha"]}

ApiIngredient(i) ==
    IF i % 2 = 1 THEN [ingredientFirebaseId |-> "milk", quantityNeeded |-> Num(1)]
    ELSE [ingredientFirebaseId |-> "sugar", quantityNeeded |-> Num(2)]

ApiIngredientLists == {[i \in 1..k |-> ApiIngredient(i)] : k \in 0..MaxApiLines}

ApiRecipeIds == RecipeIdPool \cup {""}

\* Recipe management: any sequence of requests served one after the other, from a store
\* without recipes.
InitRecipes ==
    /\ products_col = ProductsCol("Latte", "Hot Drinks", MaxStock, MaxStock)
    /\ recipes_col = <<>>
    /\ recipe_ingredients_col = <<>>
    /\ max_servings = NotCalled
    /\ products_data = NotRendered
    /\ RecipeApiIdle
    /\ LocalIdle

NextRecipes ==
    \/ \E product \in ApiProducts, ingredients \in ApiIngredientLists :
          add_recipe_api(product.id, product.name, ingredients)
    \/ \E recipe_id \in ApiRecipeIds, product \in ApiProducts,
          ingredients \in ApiIngredientLists :
          update_recipe_api(recipe_id, product.id, product.name, ingredients)
    \/ \E recipe_id \in ApiRecipeIds : delete_recipe_api(recipe_id)

SpecRecipes == InitRecipes /\ [][NextRecipes]_vars

\* Interleaved creation: two add_recipe_api requests of any content in flight at once,
\* their Firestore calls in any order, from a store without recipes.
InitRace ==
    /\ products_col = ProductsCol("Latte", "Hot Drinks", MaxStock, MaxStock)
    /\ recipes_col = <<>>
    /\ recipe_ingredients_col = <<>>
    /\ max_servings = NotCalled
    /\ products_data = NotRendered
    /\ recipe_api = NoResponse
    /\ \E first \in ApiProducts, second \in ApiProducts,
          lines1 \in ApiIngredientLists, lines2 \in ApiIngredientLists :
          add_requests = <<AddRequest(first.id, first.name, lines1),
                           AddRequest(second.id, second.name, lines2)>>
    /\ LocalIdle

NextRace ==
    \/ \E r \in DOMAIN add_requests : add_recipe_api_query(r)
    \/ \E r \in DOMAIN add_requests : add_recipe_api_add(r)
    \/ \E r \in DOMAIN add_requests : add_recipe_api_ingredient(r)

SpecRace == InitRace /\ [][NextRace]_vars

(***************************************************************************)
(* Bounded inputs of the local database                                    *)
(***************************************************************************)
MaxSales == 2               \* rows of the sales table (training)
MaxRecipeLines == 2         \* lines of the latte's recipe

\* the catalogue: a beverage and two ingredients
ProductTable ==
    <<[name |-> "Latte", category |-> "Beverages", stock |-> 0],
      [name |-> "Milk", category |-> "Ingredients", stock |-> 0],
      [name |-> "Sugar", category |-> "Ingredients", stock |-> 0]>>

\* what a sale refers to and the category recorded on it: the latte sold as a
\* beverage and as a pastry, milk sold directly, a sale without product link whose
\* name is the latte's, a sale without link whose name matches no product
SaleKinds ==
    <<[product |-> 1, product_name |-> "Latte", category |-> "Hot Drinks"],
      [product |-> 1, product_name |-> "Latte", category |-> "Pastries"],
      [product |-> 2, product_name |-> "Milk", category |-> "Ingredients"],
      [product |-> NoFk, product_name |-> "Latte", category |-> "DRINKS"],
      [product |-> NoFk, product_name |-> "Ghost", category |-> "Beverages"]>>

\* the quantity and the day of a sale: one unit on day 1, two units on day 2
SaleMoments == <<[quantity |-> 1, order_date |-> 1], [quantity |-> 2, order_date |-> 2]>>

SaleRow(kind, quantity, order_date) ==
    [product |-> kind.product,
     product_name |-> kind.product_name,
     category |-> kind.category,
     quantity |-> quantity,
     order_date |-> order_date]

\* a sale of milk older than the window (day 0)
OldSale == SaleRow(SaleKinds[3], 1, 0)

NSaleTypes == Len(SaleKinds) * Len(SaleMoments) + 1

SaleType(i) ==
    IF i = NSaleTypes THEN OldSale
    ELSE LET moment == SaleMoments[((i - 1) \div Len(SaleKinds)) + 1]
         IN  SaleRow(SaleKinds[((i - 1) % Len(SaleKinds)) + 1],
                     moment.quantity, moment.order_date)

\* the ledgers of at most n sales, one per multiset of sales
LedgerChoices(n) ==
    UNION {{[i \in 1..k |-> SaleType(s[i])] :
               s \in {t \in [1..k -> 1..NSaleTypes] :
                         \A i \in 1..(k - 1) : t[i] <= t[i + 1]}} : k \in 0..n}

\* a line of the latte's recipe: no ingredient link, milk or sugar; quantity 0 or 3
RecipeLineIngredients == <<NoFk, 2, 3>>
RecipeLineQuantities == <<0, 3>>
NRecipeLineTypes == Len(RecipeLineIngredients) * Len(RecipeLineQuantities)

RecipeLineType(i) ==
    [recipe |-> 1,
     ingredient |-> RecipeLineIngredients[((i - 1) % Len(RecipeLineIngredients)) + 1],
     quantity_needed |-> RecipeLineQuantities[((i - 1) \div Len(RecipeLineIngredients)) + 1]]

RecipeLineChoices(n) ==
    UNION {{[i \in 1..k |-> RecipeLineType(s[i])] :
               s \in {t \in [1..k -> 1..NRecipeLineTypes] :
                         \A i \in 1..(k - 1) : t[i] <= t[i + 1]}} : k \in 0..n}

\* the Firestore collections and the views are not part of the training specifications
FirestoreIdle ==
    /\ products_col = <<>>
    /\ recipes_col = <<>>
    /\ recipe_ingredients_col = <<>>
    /\ RecipeApiIdle
    /\ max_servings = NotCalled
    /\ products_data = NotRendered

\* Training: every ledger of at most MaxSales sales; the latte without recipe, or with
\* a recipe of every content of at most MaxRecipeLines lines; no earlier run.
InitTrain ==
    /\ Product = ProductTable
    /\ Sale \in LedgerChoices(MaxSales)
    /\ \/ Recipe = <<>> /\ RecipeIngredient = <<>>
       \/ Recipe = <<[id |-> 1, product |-> 1]>>
          /\ RecipeIngredient \in RecipeLineChoices(MaxRecipeLines)
    /\ MLPrediction = <<>>
    /\ MLModel = <<>>
    /\ training = NotTrained
    /\ forecast = NotForecast
    /\ FirestoreIdle

NextTrain == train_forecasting_model

SpecTrain == InitTrain /\ [][NextTrain]_vars

\* Fitting: milk sold directly on each of the days 1..n, n <= MaxFitDays, in every
\* quantity of FitQuantities; the latte, whose recipe needs 2 of sugar, sold once on
\* each of the days 1..b, b <= MaxBeverageDays.
MaxFitDays == 8
MaxBeverageDays == 3
FitQuantities == {0, 4}

MilkSales(quantities) ==
    [d \in 1..Len(quantities) |-> SaleRow(SaleKinds[3], quantities[d], d)]

LatteSales(b) == [d \in 1..b |-> SaleRow(SaleKinds[1], 1, d)]

InitFit ==
    /\ Product = ProductTable
    /\ \E n \in 0..MaxFitDays, b \in 0..MaxBeverageDays :
          \E quantities \in [1..n -> FitQuantities] :
              Sale = MilkSales(quantities) \o LatteSales(b)
    /\ Recipe = <<[id |-> 1, product |-> 1]>>
    /\ RecipeIngredient = <<[recipe |-> 1, ingredient |-> 3, quantity_needed |-> 2]>>
    /\ MLPrediction = <<>>
    /\ MLModel = <<>>
    /\ training = NotTrained
    /\ forecast = NotForecast
    /\ FirestoreIdle

SpecFit == InitFit /\ [][NextTrain]_vars

\* Forecast page: the latte under an excluded or a kept beverage category, milk and
\* sugar with every stock of ForecastStocks, without prediction or with a prediction
\* of every usage of ForecastUsages (in hundredths), a product excluded by its name;
\* the model record absent or present.
ForecastStocks == {0, 7, 10, 50}
ForecastUsages == {0, 1, 100, 200, 1000}
ForecastCategories == {"Beverages", "Hot Drinks"}

PredictionRow(product_id, usage) ==
    [product |-> product_id, predicted_daily_usage |-> usage, avg_daily_usage |-> usage,
     trend |-> 0, confidence_score |-> 60, data_points |-> 3]

PredictionChoices(product_id) ==
    {<<>>} \cup {<<PredictionRow(product_id, usage)>> : usage \in ForecastUsages}

ForecastCatalogue(latte_category, milk, sugar) ==
    <<[name |-> "Latte", category |-> latte_category, stock |-> 10],
      [name |-> "Milk", category |-> "Ingredients", stock |-> milk],
      [name |-> "Sugar", category |-> "Ingredients", stock |-> sugar],
      [name |-> "Ice", category |-> "Ingredients", stock |-> 0]>>

ModelRow ==
    [name |-> "inventory_forecasting"] @@ ModelDefaults(0, 0, 0)

InitForecast ==
    /\ \E category \in ForecastCategories, milk \in ForecastStocks, sugar \in ForecastStocks :
          Product = ForecastCatalogue(category, milk, sugar)
    /\ \E m \in PredictionChoices(2), g \in PredictionChoices(3) :
          MLPrediction = <<PredictionRow(1, 100)>> \o m \o g
    /\ MLModel \in {<<>>, <<ModelRow>>}
    /\ Sale = <<>>
    /\ Recipe = <<>>
    /\ RecipeIngredient = <<>>
    /\ training = NotTrained
    /\ forecast = NotForecast
    /\ FirestoreIdle

NextForecast == inventory_forecasting_view

SpecForecast == InitForecast /\ [][NextForecast]_vars

\* Training, then forecast: milk with a stock of PipeStocks, sold directly on each of
\* the days 1..n, n <= MaxPipeDays, in every quantity of FitQuantities (all-zero series
\* included); training and the forecast page in any order.
MaxPipeDays == 7
PipeStocks == {0, 7}

InitPipe ==
    /\ \E stock \in PipeStocks : Product = [ProductTable EXCEPT ![2].stock = stock]
    /\ \E n \in 0..MaxPipeDays :
          \E quantities \in [1..n -> FitQuantities] : Sale = MilkSales(quantities)
    /\ Recipe = <<>>
    /\ RecipeIngredient = <<>>
    /\ MLPrediction = <<>>
    /\ MLModel = <<>>
    /\ training = NotTrained
    /\ forecast = NotForecast
    /\ FirestoreIdle

NextPipe == train_forecasting_model \/ inventory_forecasting_view

SpecPipe == InitPipe /\ [][NextPipe]_vars

\* Category snapshot: the latte and milk under every current category of
\* LatteCategories and MilkCategories; on each of the days 1..n, n <= MaxSnapshotDays,
\* one sale of the latte and one of milk, each recorded under a beverage or a
\* non-beverage category; the latte's recipe needs 2 of sugar.
MaxSnapshotDays == 3
LatteCategories == {"Beverages", "Pastries"}
MilkCategories == {"Ingredients", "Drinks"}
LatteSaleCategories == {"Hot Drinks", "Pastries"}
MilkSaleCategories == {"Ingredients", "DRINKS"}

SnapshotSales(latte, milk) ==
    [k \in 1..(2 * Len(latte)) |->
        IF k % 2 = 1
        THEN [product |-> 1, product_name |-> "Latte", category |-> latte[(k + 1) \div 2],
              quantity |-> 1, order_date |-> (k + 1) \div 2]
        ELSE [product |-> 2, product_name |-> "Milk", category |-> milk[k \div 2],
              quantity |-> 4, order_date |-> k \div 2]]

InitSnapshot ==
    /\ \E latte \in LatteCategories, milk \in MilkCategories :
          Product = [ProductTable EXCEPT ![1].category = latte, ![2].category = milk]
    /\ \E n \in 0..MaxSnapshotDays :
          \E latte \in [1..n -> LatteSaleCategories], milk \in [1..n -> MilkSaleCategories] :
              Sale = SnapshotSales(latte, milk)
    /\ Recipe = <<[id |-> 1, product |-> 1]>>
    /\ RecipeIngredient = <<[recipe |-> 1, ingredient |-> 3, quantity_needed |-> 2]>>
    /\ MLPrediction = <<>>
    /\ MLModel = <<>>
    /\ training = NotTrained
    /\ forecast = NotForecast
    /\ FirestoreIdle

SpecSnapshot == InitSnapshot /\ [][NextTrain]_vars

\* Retraining: the ledger is replaced between runs by any ledger of milk sold directly
\* (4 a day) on the days 1..n, n <= MaxRetrainDays, and the latte, whose recipe needs 2
\* of sugar, not sold or sold once on each of the days 1..MaxBeverageDays; runs complete
\* or abort.
MaxRetrainDays == 3

RetrainLedgers ==
    {MilkSales([d \in 1..n |-> 4]) \o LatteSales(b) :
        n \in 0..MaxRetrainDays, b \in {0, MaxBeverageDays}}

\* the external store records sales and ages others out of the window
RecordSales ==
    /\ Sale' \in RetrainLedgers
    /\ UNCHANGED <<firestore_vars, max_servings, products_data, Product, Recipe,
                   RecipeIngredient, MLPrediction, MLModel, training, forecast>>

InitRetrain ==
    /\ Product = ProductTable
    /\ Sale \in RetrainLedgers
    /\ Recipe = <<[id |-> 1, product |-> 1]>>
    /\ RecipeIngredient = <<[recipe |-> 1, ingredient |-> 3, quantity_needed |-> 2]>>
    /\ MLPrediction = <<>>
    /\ MLModel = <<>>
    /\ training = NotTrained
    /\ forecast = NotForecast
    /\ FirestoreIdle

NextRetrain ==
    \/ train_forecasting_model
    \/ train_forecasting_model_aborted
    \/ RecordSales

SpecRetrain == InitRetrain /\ [][NextRetrain]_vars

\* The whole engine: training runs that complete or abort, forecast views, feasibility
\* computations and recipe operations in any order, over the catalogue, the latte's
\* recipe in the local tables, either ledger of EngineLedgers and a Firestore store
\* without recipes.
EngineLedgers == {<<>>, MilkSales(<<4, 4, 4>>) \o LatteSales(1)}

EngineProducts == {[id |-> "latte", name |-> "Latte"], [id |-> "mocha", name |-> "Mocha"]}

EngineIngredientLists == {<<>>, <<[ingredientFirebaseId |-> "milk", quantityNeeded |-> Num(1)]>>}

InitEngine ==
    /\ products_col = ProductsCol("Latte", "Hot Drinks", MaxStock, MaxStock)
    /\ recipes_col = <<>>
    /\ recipe_ingredients_col = <<>>
    /\ max_servings = NotCalled
    /\ products_data = NotRendered
    /\ RecipeApiIdle
    /\ Product = ProductTable
    /\ Sale \in EngineLedgers
    /\ Recipe = <<[id |-> 1, product |-> 1]>>
    /\ RecipeIngredient = <<[recipe |-> 1, ingredient |-> 3, quantity_needed |-> 2]>>
    /\ MLPrediction = <<>>
    /\ MLModel = <<>>
    /\ training = NotTrained
    /\ forecast = NotForecast

NextEngine ==
    \/ train_forecasting_model
    \/ train_forecasting_model_aborted
    \/ inventory_forecasting_view
    \/ CalculateMaxServings
    \/ \E product \in EngineProducts, ingredients \in EngineIngredientLists :
          add_recipe_api(product.id, product.name, ingredients)
    \/ \E recipe_id \in RecipeIdPool, product \in EngineProducts,
          ingredients \in EngineIngredientLists :
          update_recipe_api(recipe_id, product.id, product.name, ingredients)
    \/ \E recipe_id \in RecipeIdPool : delete_recipe_api(recipe_id)

SpecEngine == InitEngine /\ [][NextEngine]_vars

(***************************************************************************)
(* Feasibility claims                                                      *)
(***************************************************************************)
\* the ingredient id and the quantity the helper reads from a line
LineId(d) == Strip(GetStr(d.ingredientFirebaseId, ""))
LineQty(d) == GetNum(d.quantityNeeded, 0)
LineResolves(d) == LineId(d) \in DOMAIN products_col
LineDangles(d) == LineId(d) \notin DOMAIN products_col \cup {"", NULLSTR}
LineStock(d) == products_col[LineId(d)].quantity
LineRaises(d) == LineId(d) = NULLSTR \/ (LineResolves(d) /\ LineQty(d).t = "null")
NoLineRaises(docs) == \A i \in 1..Len(docs) : ~LineRaises(docs[i])

\* the lines of the recipe of the last call
CalledLines == IngredientsOf(max_servings.recipe_id)

\* v is the least of the values f[i], i in S (S not empty)
IsLeast(v, S, f(_)) == (\E i \in S : v = f(i)) /\ (\A i \in S : v <= f(i))

\* C1 (as amended): when every line of the recipe has a non-empty ingredient id that
\* resolves to an existing product, calculate_max_servings returns the minimum, over
\* the lines whose quantity_needed is not 0, of floor(stock / quantity_needed) for a
\* positive quantity and 0 for a negative one; it returns 0 when there is no such
\* line, and None when a line's quantity is null.
C1_BottleneckOverLines ==
    max_servings.called =>
        LET docs == CalledLines
            idx == 1..Len(docs)
            counted == {i \in idx : LineQty(docs[i]).v # 0}
            cap(i) == IF LineQty(docs[i]).v > 0
                      THEN LineStock(docs[i]) \div LineQty(docs[i]).v ELSE 0
        IN  (\A i \in idx : LineResolves(docs[i])) =>
                IF \E i \in idx : LineQty(docs[i]).t = "null"
                THEN max_servings.result = None
                ELSE /\ ~max_servings.result.isNone
                     /\ IF counted = {} THEN max_servings.result.val = 0
                        ELSE IsLeast(max_servings.result.val, counted, cap)

\* C1 as stated (on the recipes whose quantities are numbers): the minimum is taken
\* over the lines with quantity_needed > 0 only, and is 0 when there is no such line.
C1_MinOverPositiveLines ==
    max_servings.called =>
        LET docs == CalledLines
            idx == 1..Len(docs)
            positive == {i \in idx : LineQty(docs[i]).v > 0}
            cap(i) == LineStock(docs[i]) \div LineQty(docs[i]).v
        IN  (\A i \in idx : LineResolves(docs[i]) /\ LineQty(docs[i]).t = "num") =>
                /\ ~max_servings.result.isNone
                /\ IF positive = {} THEN max_servings.result.val = 0
                   ELSE IsLeast(max_servings.result.val, positive, cap)

\* C1 witness: a call on a recipe of two resolvable lines of different capacities,
\* which returned the smaller one, above 0
C1_Witness ==
    /\ max_servings.called
    /\ LET docs == CalledLines
       IN  /\ Len(docs) = 2
           /\ \A i \in 1..2 : LineResolves(docs[i]) /\ LineQty(docs[i]).v > 0
           /\ LineStock(docs[1]) \div LineQty(docs[1]).v
                 < LineStock(docs[2]) \div LineQty(docs[2]).v
           /\ max_servings.result = Some(LineStock(docs[1]) \div LineQty(docs[1]).v)
           /\ max_servings.result.val > 0

\* C2 (as amended): when the recipe has a line with quantity_needed > 0 whose ingredient
\* id is not empty and names no existing product, calculate_max_servings returns 0
\* whatever the capacity of the other lines (None when another line raises).
C2_DanglingLineGivesZero ==
    max_servings.called =>
        LET docs == CalledLines
            idx == 1..Len(docs)
        IN  (\E i \in idx : LineDangles(docs[i]) /\ LineQty(docs[i]).t = "num"
                             /\ LineQty(docs[i]).v > 0) =>
                IF \E i \in idx : LineRaises(docs[i])
                THEN max_servings.result = None
                ELSE max_servings.result = Some(0)

\* C2 as stated (on the recipes none of whose lines raises): a line with
\* quantity_needed > 0 whose ingredient id is missing, empty or names no existing
\* product makes the result 0.
C2_UnresolvedLineGivesZero ==
    max_servings.called =>
        LET docs == CalledLines
            idx == 1..Len(docs)
        IN  (/\ NoLineRaises(docs)
             /\ \E i \in idx : ~LineResolves(docs[i]) /\ LineQty(docs[i]).v > 0) =>
                max_servings.result = Some(0)

\* C2 witness: a call on a recipe with a dangling line and a resolvable line of
\* capacity above 0, which returned 0
C2_Witness ==
    /\ max_servings.called
    /\ max_servings.result = Some(0)
    /\ LET docs == CalledLines
       IN  /\ \E i \in 1..Len(docs) : LineDangles(docs[i]) /\ LineQty(docs[i]).v > 0
           /\ \E i \in 1..Len(docs) :
                 /\ LineResolves(docs[i]) /\ LineQty(docs[i]).v > 0
                 /\ LineStock(docs[i]) \div LineQty(docs[i]).v > 0

\* a recipe document matches the product by id or by name
RecipeMatches(row) ==
    \E i \in 1..Len(recipes_col) :
        \/ GetStr(recipes_col[i].productFirebaseId, "") = row.id
        \/ Strip(Lower(GetStr(recipes_col[i].productName, ""))) = Strip(Lower(row.name))

\* C3 as stated: for a beverage row of the inventory page, max_servings is None only
\* when no recipe matches the product (has_recipe false); when a recipe matches,
\* max_servings is an integer >= 0.
C3_UnknownOnlyWithoutRecipe ==
    \A k \in 1..Len(products_data) :
        LET row == products_data[k]
        IN  row.category = "beverage" =>
                /\ row.has_recipe <=> RecipeMatches(row)
                /\ row.max_servings.isNone => ~row.has_recipe
                /\ row.has_recipe => (~row.max_servings.isNone /\ row.max_servings.val >= 0)

(***************************************************************************)
(* Training claims                                                         *)
(***************************************************************************)
\* the sales of the window, by row, and what the run reads from them
WindowIdx == {i \in 1..Len(Sale) : InWindow(Sale[i])}
Resolves(i) == ResolveProduct(Sale[i]).outcome = "found"
SoldProduct(i) == ResolveProduct(Sale[i]).id
Days == {Sale[i].order_date : i \in WindowIdx}

\* sale i is a direct (non-beverage) sale of product p on day d
DirectSale(i, p, d) ==
    /\ i \in WindowIdx /\ Resolves(i) /\ ~IsBeverage(Sale[i])
    /\ SoldProduct(i) = p /\ Sale[i].order_date = d

\* line j belongs to the recipe of product b
LineOfProduct(j, b) ==
    \E r \in 1..Len(Recipe) :
        Recipe[r].product = b /\ RecipeIngredient[j].recipe = Recipe[r].id

\* sale i is a beverage sale on day d whose recipe uses product p on line j
DerivedEvent(i, j, p, d) ==
    /\ i \in WindowIdx /\ Resolves(i) /\ IsBeverage(Sale[i])
    /\ Sale[i].order_date = d
    /\ LineOfProduct(j, SoldProduct(i))
    /\ RecipeIngredient[j].ingredient = p

\* the sum over the lines 1..j of quantity_needed * quantity of sale i, for p on day d
RECURSIVE DerivedSum(_, _, _, _)
DerivedSum(i, j, p, d) ==
    IF j = 0 THEN 0
    ELSE (IF DerivedEvent(i, j, p, d)
          THEN RecipeIngredient[j].quantity_needed * Sale[i].quantity ELSE 0)
         + DerivedSum(i, j - 1, p, d)

\* the sum over the sales 1..i of what they add to the series of p on day d
RECURSIVE ExpectedSum(_, _, _)
ExpectedSum(i, p, d) ==
    IF i = 0 THEN 0
    ELSE (IF DirectSale(i, p, d) THEN Sale[i].quantity ELSE 0)
         + DerivedSum(i, Len(RecipeIngredient), p, d)
         + ExpectedSum(i - 1, p, d)

ExpectedValue(p, d) == ExpectedSum(Len(Sale), p, d)

\* the value of the series of p on day d in the last run, 0 without entry
SeriesValue(p, d) ==
    IF p \in DOMAIN training.product_daily_sales
       /\ d \in DOMAIN training.product_daily_sales[p]
    THEN training.product_daily_sales[p][d] ELSE 0

\* the days of the series of p in the last run
SeriesDays(p) ==
    IF p \in DOMAIN training.product_daily_sales
    THEN DOMAIN training.product_daily_sales[p] ELSE {}

Succeeded == training.ran /\ training.response.success

\* C4 as stated (expansion): a recipe line with quantity_needed 0 is treated as absent,
\* so the days of every ingredient's series are the days with a direct sale of it or a
\* beverage sale whose recipe has a line for it with quantity_needed other than 0.
C4_ZeroQuantityLineIsAbsent ==
    Succeeded =>
        \A p \in DOMAIN Product :
            SeriesDays(p) =
                {d \in Days :
                    \/ \E i \in 1..Len(Sale) : DirectSale(i, p, d)
                    \/ \E i \in 1..Len(Sale), j \in 1..Len(RecipeIngredient) :
                          /\ DerivedEvent(i, j, p, d)
                          /\ RecipeIngredient[j].quantity_needed # 0}

\* C5: the value of each product's series on each day is the sum of its direct
\* non-beverage sales that day plus the sum of quantity_needed * quantity over the
\* beverage sales that day and the lines of their recipe that use it; the quantity of a
\* beverage sale itself is added to no series.
C5_SeriesIsDirectPlusDerived ==
    training.ran =>
        /\ training.response.success
        /\ DOMAIN training.product_daily_sales \subseteq DOMAIN Product
        /\ \A p \in DOMAIN Product : SeriesDays(p) \subseteq Days
        /\ \A p \in DOMAIN Product, d \in Days : SeriesValue(p, d) = ExpectedValue(p, d)

\* C5 witness: milk sold directly on day 2 and the latte, whose recipe needs 3 of milk,
\* sold twice that day: the series of milk holds 2 + 3 * 2 on day 2
C5_Witness ==
    /\ Succeeded
    /\ \E i \in 1..Len(Sale) : DirectSale(i, 2, 2)
    /\ \E i \in 1..Len(Sale), j \in 1..Len(RecipeIngredient) :
          DerivedEvent(i, j, 2, 2) /\ RecipeIngredient[j].quantity_needed = 3
    /\ SeriesValue(2, 2) = 8
    /\ 1 \notin DOMAIN training.product_daily_sales

\* the product sold by sale i has no recipe
SoldWithoutRecipe(i) ==
    /\ i \in WindowIdx /\ Resolves(i) /\ IsBeverage(Sale[i])
    /\ \A r \in 1..Len(Recipe) : Recipe[r].product # SoldProduct(i)

\* C6: when the beverages sold have no recipe, the run succeeds, the series hold the
\* direct sales only, and total_records counts every sale of the window that resolves
\* to a product, the beverage sales included.
C6_NoRecipeDroppedButCounted ==
    (training.ran /\ \A i \in WindowIdx : Resolves(i) /\ IsBeverage(Sale[i])
                                             => SoldWithoutRecipe(i)) =>
        /\ training.response.success
        /\ \A p \in DOMAIN Product :
              SeriesDays(p) = {d \in Days : \E i \in 1..Len(Sale) : DirectSale(i, p, d)}
        /\ \A p \in DOMAIN Product, d \in Days :
              SeriesValue(p, d) = ExpectedValue(p, d)
        /\ training.response.total_records =
              Cardinality({i \in WindowIdx : Resolves(i)})

\* C6 witness: a ledger of two beverage sales of the latte, which has no recipe: the
\* run succeeded with no series and total_records 2
C6_Witness ==
    /\ Succeeded
    /\ Len(Sale) = 2
    /\ \A i \in 1..2 : SoldWithoutRecipe(i)
    /\ training.product_daily_sales = EmptyDict
    /\ training.response.total_records = 2

\* C7 as stated: the run succeeds, a sale that resolves to no product changes no
\* series, and it is included in the tally of records, so total_records counts every
\* sale of the window.
C7_UnresolvedSaleSkippedAndCounted ==
    training.ran =>
        /\ training.response.success
        /\ \A p \in DOMAIN Product, d \in Days : SeriesValue(p, d) = ExpectedValue(p, d)
        /\ training.response.total_records = Cardinality(WindowIdx)

\* C30 as stated: the non_beverages_processed figure of the response is never negative
\* and is the number of products with a series that were not sold as beverages.
C30_NonBeveragesCounted ==
    Succeeded =>
        /\ training.response.non_beverages_processed >= 0
        /\ training.response.non_beverages_processed =
              Cardinality(DOMAIN training.product_daily_sales
                              \ DOMAIN training.beverage_daily_sales)

(***************************************************************************)
(* Fitting claims                                                          *)
(***************************************************************************)
\* the days on which the ledger and the recipes give product p a series entry
ExpectedDays(p) ==
    {d \in Days :
        \/ \E i \in 1..Len(Sale) : DirectSale(i, p, d)
        \/ \E i \in 1..Len(Sale), j \in 1..Len(RecipeIngredient) : DerivedEvent(i, j, p, d)}

\* the sum of the series values of p over the days of S
RECURSIVE ExpectedTotal(_, _)
ExpectedTotal(p, S) ==
    IF S = {} THEN 0
    ELSE LET d == CHOOSE x \in S : TRUE
         IN  ExpectedValue(p, d) + ExpectedTotal(p, S \ {d})

\* the rows of MLPrediction written for product p
PredictionRows(p) == {k \in 1..Len(MLPrediction) : MLPrediction[k].product = p}

\* C8: a product whose series has fewer than 3 days gets no prediction but is counted
\* in products_analyzed: products_analyzed is the number of products with at least one
\* day, predictions_generated the number of those with at least 3 days, which are the
\* products with a prediction row, and predictions_generated <= products_analyzed.
C8_ShortSeriesCountedNotPredicted ==
    training.ran =>
        LET analyzed == {p \in DOMAIN Product : ExpectedDays(p) # {}}
            predicted == {p \in DOMAIN Product : Cardinality(ExpectedDays(p)) >= 3}
        IN  /\ Len(MLModel) = 1
            /\ MLModel[1].products_analyzed = Cardinality(analyzed)
            /\ MLModel[1].predictions_generated = Cardinality(predicted)
            /\ training.response.predictions_generated = Cardinality(predicted)
            /\ \A p \in DOMAIN Product :
                  Cardinality(PredictionRows(p)) = IF p \in predicted THEN 1 ELSE 0
            /\ Len(MLPrediction) = Cardinality(predicted)
            /\ MLModel[1].predictions_generated <= MLModel[1].products_analyzed

\* C8 witness: milk with a series of 2 days and sugar with a series of 3 days: two
\* products analyzed, one prediction, for sugar
C8_Witness ==
    /\ training.ran
    /\ Cardinality(ExpectedDays(2)) = 2
    /\ Cardinality(ExpectedDays(3)) = 3
    /\ Len(MLModel) = 1
    /\ MLModel[1].products_analyzed = 2
    /\ MLModel[1].predictions_generated = 1
    /\ PredictionRows(2) = {}
    /\ PredictionRows(3) # {}

\* C9 (as amended): for a series of 3 to 6 points the prediction written has trend 0,
\* confidence 0.6 and predicted_daily_usage equal to avg_daily_usage, which is the mean
\* of all points of the series rounded to 2 decimals.
C9_ShortSeriesRoundedMean ==
    training.ran =>
        \A p \in DOMAIN Product :
            LET days == ExpectedDays(p)
                n == Cardinality(days)
                total == ExpectedTotal(p, days)
            IN  (n >= 3 /\ n <= 6) =>
                    /\ PredictionRows(p) # {}
                    /\ \A k \in PredictionRows(p) :
                          LET row == MLPrediction[k]
                              gap == row.avg_daily_usage * n - 100 * total
                          IN  /\ row.data_points = n
                              /\ row.trend = 0
                              /\ row.confidence_score = 60
                              /\ row.predicted_daily_usage = row.avg_daily_usage
                              /\ 2 * gap <= n /\ -2 * gap <= n

\* C9 as stated: for a series of 3 to 6 points the prediction written has trend 0,
\* confidence 0.6 and predicted_daily_usage equal to avg_daily_usage, which is the mean
\* of all points of the series.
C9_ShortSeriesExactMean ==
    training.ran =>
        \A p \in DOMAIN Product :
            LET days == ExpectedDays(p)
                n == Cardinality(days)
                total == ExpectedTotal(p, days)
            IN  (n >= 3 /\ n <= 6) =>
                    /\ PredictionRows(p) # {}
                    /\ \A k \in PredictionRows(p) :
                          LET row == MLPrediction[k]
                          IN  /\ row.data_points = n
                              /\ row.trend = 0
                              /\ row.confidence_score = 60
                              /\ row.predicted_daily_usage = row.avg_daily_usage
                              /\ row.avg_daily_usage * n = 100 * total

\* C9 witness: milk sold 0, 0 and 4 on three days: the prediction of milk has
\* avg_daily_usage and predicted_daily_usage 1.33, trend 0 and confidence 0.6
C9_Witness ==
    /\ training.ran
    /\ Cardinality(ExpectedDays(2)) = 3
    /\ ExpectedTotal(2, ExpectedDays(2)) = 4
    /\ \E k \in PredictionRows(2) :
          /\ MLPrediction[k].avg_daily_usage = 133
          /\ MLPrediction[k].predicted_daily_usage = 133
          /\ MLPrediction[k].trend = 0
          /\ MLPrediction[k].confidence_score = 60

\* a <= b for rationals with positive denominators
RatLeq(a, b) == a.n * b.d <= b.n * a.d

\* the i-th day of the series of p
NthDay(p, i) ==
    CHOOSE d \in ExpectedDays(p) : Cardinality({e \in ExpectedDays(p) : e <= d}) = i

\* C10: for every series fitted, predicted_daily_usage lies within
\* avg_daily_usage * [1 - 0.1 |trend|, 1 + 0.1 |trend|], where trend is
\* (mean of last 7 - mean of first 7) / mean of first 7 when the series has at least 7
\* points and the mean of the first 7 is > 0, and 0 otherwise.
C10_PredictionWithinDampedTrend ==
    training.ran =>
        \A p \in DOMAIN training.fits :
            LET f == training.fits[p]
                q == f.quantities
                n == Len(q)
                old == SeqSum(SubSeq(q, 1, 7))
                new == SeqSum(SubSeq(q, n - 6, n))
                size == IF f.trend.n < 0 THEN -f.trend.n ELSE f.trend.n
                avg == f.avg_daily_usage
                lower == Rat(avg.n * (10 * f.trend.d - size), avg.d * 10 * f.trend.d)
                upper == Rat(avg.n * (10 * f.trend.d + size), avg.d * 10 * f.trend.d)
            IN  /\ n = Cardinality(ExpectedDays(p))
                /\ \A i \in 1..n : q[i] = ExpectedValue(p, NthDay(p, i))
                /\ f.trend.d > 0 /\ avg.d > 0 /\ f.predicted_daily_usage.d > 0
                /\ IF n >= 7 THEN avg.n * 7 = new * avg.d ELSE avg.n * n = SeqSum(q) * avg.d
                /\ IF n >= 7 /\ old > 0
                   THEN f.trend.n * old = (new - old) * f.trend.d
                   ELSE f.trend.n = 0
                /\ RatLeq(lower, f.predicted_daily_usage)
                /\ RatLeq(f.predicted_daily_usage, upper)

\* C10 witness: a series of milk of 8 points with a falling trend, whose prediction is
\* below the average
C10_Witness ==
    /\ training.ran
    /\ 2 \in DOMAIN training.fits
    /\ Len(training.fits[2].quantities) = 8
    /\ training.fits[2].trend.n < 0
    /\ ~RatLeq(training.fits[2].avg_daily_usage, training.fits[2].predicted_daily_usage)

\* C11: for every series the confidence written lies in [0.5, 0.95], whatever the
\* variance of the last 7 values, an average of 0 included; every series of at least 3
\* days gets its row.
C11_ConfidenceClamped ==
    training.ran =>
        /\ training.response.success
        /\ \A p \in DOMAIN Product :
              Cardinality(ExpectedDays(p)) >= 3 => PredictionRows(p) # {}
        /\ \A k \in 1..Len(MLPrediction) :
              /\ MLPrediction[k].confidence_score >= 50
              /\ MLPrediction[k].confidence_score <= 95

\* C11 witness: milk with a series of 8 days whose last 7 values are 0 (average 0),
\* written with confidence 0.95
C11_Witness ==
    /\ training.ran
    /\ Cardinality(ExpectedDays(2)) = 8
    /\ ExpectedTotal(2, ExpectedDays(2) \ {1}) = 0
    /\ ExpectedValue(2, 1) = 4
    /\ \E k \in PredictionRows(2) :
          /\ MLPrediction[k].avg_daily_usage = 0
          /\ MLPrediction[k].confidence_score = 95

(***************************************************************************)
(* Forecast claims                                                         *)
(***************************************************************************)
\* the row of product p in the last forecast rendered
RowsOf(p) ==
    {i \in 1..Len(forecast.forecast_data) : forecast.forecast_data[i].product_id = p}

\* C12: no division fault in training or in the forecast page, for every series of
\* non-negative quantities (all-zero series included) and every non-negative stock:
\* the run and the page succeed, the trend is 0 without division when the sum of the
\* first 7 values is 0, the denominator avg_daily_usage + 1 is not 0, and a usage that
\* is not > 0 gives the sentinel instead of a quotient.
C12_NoDivisionFault ==
    /\ training.ran =>
          /\ training.response.success
          /\ \A p \in DOMAIN training.fits :
                LET f == training.fits[p]
                    q == f.quantities
                    n == Len(q)
                IN  /\ f.trend.d # 0 /\ f.avg_daily_usage.d # 0
                    /\ f.predicted_daily_usage.d # 0
                    /\ (n >= 7 /\ SeqSum(SubSeq(q, 1, 7)) = 0) => f.trend.n = 0
                    /\ n >= 7 => SeqSum(SubSeq(q, n - 6, n)) + 7 # 0
    /\ forecast.rendered =>
          /\ ~forecast.error
          /\ \A i \in 1..Len(ForecastProducts) : RowsOf(ForecastProducts[i]) # {}

\* C12 witness: milk sold 0 on each of 7 days: the run wrote a prediction of usage 0
\* and the page rendered after it shows milk without fault, as unbounded
C12_Witness ==
    /\ training.ran /\ training.response.success
    /\ 2 \in DOMAIN training.fits
    /\ training.fits[2].quantities = <<0, 0, 0, 0, 0, 0, 0>>
    /\ \E k \in PredictionRows(2) : MLPrediction[k].predicted_daily_usage = 0
    /\ forecast.rendered /\ ~forecast.error
    /\ \E i \in RowsOf(2) : forecast.forecast_data[i].days_left = NA

\* the usage the page reads for product p (in hundredths): that of its prediction,
\* 0 without prediction
UsageOf(p) ==
    IF PredictionRows(p) = {} THEN 0
    ELSE MLPrediction[CHOOSE k \in PredictionRows(p) : TRUE].predicted_daily_usage

\* floor(stock / predicted_daily_usage) of product p, for a usage > 0
Quotient(p) == (100 * Product[p].stock) \div UsageOf(p)

\* the products of the page
Kept == {ForecastProducts[i] : i \in 1..Len(ForecastProducts)}

Rendered == forecast.rendered /\ ~forecast.error

\* C13 as stated: every product with predicted_daily_usage > 0 is reported with
\* days_left = floor(stock / predicted_daily_usage) and a depletion date of now +
\* days_left; a product is reported as unbounded ('N/A', 'N/A') if and only if it has
\* no prediction or its predicted_daily_usage is not > 0.
C13_DaysLeftIsQuotient ==
    Rendered =>
        \A p \in Kept :
            /\ Cardinality(RowsOf(p)) = 1
            /\ \A i \in RowsOf(p) :
                  LET row == forecast.forecast_data[i]
                  IN  IF UsageOf(p) > 0
                      THEN /\ row.days_left = Shown(Quotient(p))
                           /\ row.depletion_date = Shown(Quotient(p))
                      ELSE /\ row.days_left = NA
                           /\ row.depletion_date = NA

\* the days left of product p as the page computes them: the quotient, or the
\* sentinel for a usage that is not > 0
DaysOf(p) == IF UsageOf(p) > 0 THEN Quotient(p) ELSE 999

\* the rows of the last forecast with a status
RowsWithStatus(status) ==
    {i \in 1..Len(forecast.forecast_data) : forecast.forecast_data[i].status = status}

\* C14: every forecast row has exactly one status: critical iff days_left <= 3,
\* warning iff 3 < days_left <= 7, healthy otherwise (the sentinel included); the
\* three counters of the summary count the rows of each status and add up to the
\* number of rows.
C14_TiersPartition ==
    Rendered =>
        /\ \A p \in Kept : \A i \in RowsOf(p) :
              LET status == forecast.forecast_data[i].status
              IN  /\ status \in {"critical", "warning", "healthy"}
                  /\ status = "critical" <=> DaysOf(p) <= 3
                  /\ status = "warning" <=> (3 < DaysOf(p) /\ DaysOf(p) <= 7)
                  /\ status = "healthy" <=> DaysOf(p) > 7
        /\ forecast.summary.critical = Cardinality(RowsWithStatus("critical"))
        /\ forecast.summary.low = Cardinality(RowsWithStatus("warning"))
        /\ forecast.summary.healthy = Cardinality(RowsWithStatus("healthy"))
        /\ forecast.summary.critical + forecast.summary.low + forecast.summary.healthy
              = Len(forecast.forecast_data)
        /\ Len(forecast.forecast_data) = Cardinality(Kept)

\* C14 witness: milk with exactly 3 days left (critical), sugar with exactly 7
\* (warning), the latte with 10 (healthy): one row in each tier
C14_Witness ==
    /\ Rendered
    /\ Kept = {1, 2, 3}
    /\ DaysOf(2) = 3 /\ DaysOf(3) = 7 /\ DaysOf(1) = 10
    /\ \A i \in RowsOf(2) : forecast.forecast_data[i].status = "critical"
    /\ \A i \in RowsOf(3) : forecast.forecast_data[i].status = "warning"
    /\ \A i \in RowsOf(1) : forecast.forecast_data[i].status = "healthy"
    /\ forecast.summary.critical = 1 /\ forecast.summary.low = 1
    /\ forecast.summary.healthy = 1

\* C15: a forecast row is counted as needing reorder iff its days_left <= 7, that is
\* iff its status is critical or warning: needs_reorder = critical + low.
C15_ReorderIffCriticalOrWarning ==
    Rendered =>
        /\ forecast.summary.needs_reorder = Cardinality({p \in Kept : DaysOf(p) <= 7})
        /\ forecast.summary.needs_reorder =
              Cardinality(RowsWithStatus("critical") \cup RowsWithStatus("warning"))
        /\ forecast.summary.needs_reorder = forecast.summary.critical + forecast.summary.low

\* C15 witness: a page with a critical row, a warning row and a healthy row: two rows
\* need reorder
C15_Witness ==
    /\ Rendered
    /\ Len(forecast.forecast_data) = 3
    /\ forecast.summary.critical = 1
    /\ forecast.summary.low = 1
    /\ forecast.summary.needs_reorder = 2

\* C16: the reorder quantity of a row is max(0, predicted_daily_usage * 30 - stock)
\* when days_left <= 7 and 0 otherwise (shown in hundredths).
C16_ReorderQuantity ==
    Rendered =>
        \A p \in Kept : \A i \in RowsOf(p) :
            LET need == 30 * UsageOf(p) - 100 * Product[p].stock
            IN  forecast.forecast_data[i].reorder_qty =
                    IF DaysOf(p) <= 7 THEN (IF need > 0 THEN need ELSE 0) ELSE 0

\* C16 witness: milk with stock 50 and a predicted daily usage of 10: 5 days left,
\* status warning, reorder quantity 250
C16_Witness ==
    /\ Rendered
    /\ Product[2].stock = 50
    /\ UsageOf(2) = 1000
    /\ \E i \in RowsOf(2) :
          /\ forecast.forecast_data[i].days_left = Shown(5)
          /\ forecast.forecast_data[i].status = "warning"
          /\ forecast.forecast_data[i].reorder_qty = 25000

\* C17: the forecast rows are ordered by ascending days_left, every row shown as 'N/A'
\* after every row with a number; each product of the page has its row.
C17_SortedByDaysLeft ==
    Rendered =>
        /\ \A p \in Kept : Cardinality(RowsOf(p)) = 1
        /\ Len(forecast.forecast_data) = Cardinality(Kept)
        /\ \A i, j \in 1..Len(forecast.forecast_data) :
              i < j =>
                  LET a == forecast.forecast_data[i].days_left
                      b == forecast.forecast_data[j].days_left
                  IN  /\ ~(a.na /\ ~b.na)
                      /\ (~a.na /\ ~b.na) => a.val <= b.val

\* C17 witness: milk without prediction ('N/A'), sugar with 0 days left, the latte
\* with 10: the rows come as sugar, latte, milk
C17_Witness ==
    /\ Rendered
    /\ Len(forecast.forecast_data) = 3
    /\ forecast.forecast_data[1].product_id = 3
    /\ forecast.forecast_data[1].days_left = Shown(0)
    /\ forecast.forecast_data[2].product_id = 1
    /\ forecast.forecast_data[2].days_left = Shown(10)
    /\ forecast.forecast_data[3].product_id = 2
    /\ forecast.forecast_data[3].days_left = NA

\* C18 as stated: no product whose category is one that training classifies as a
\* beverage category and that inventory_view normalizes to 'beverage' appears in the
\* forecast rows.
C18_BeveragesExcluded ==
    Rendered =>
        \A i \in 1..Len(forecast.forecast_data) :
            LET category == forecast.forecast_data[i].category
            IN  ~(/\ Lower(category) \in BeverageCategoriesTraining
                  /\ NormalizeCategory(category) = "beverage")

\* C29: for every product with non-negative stock the reorder quantity of its forecast
\* row is strictly positive iff the row needs reorder (days_left <= 7): days_left <= 7
\* implies predicted_daily_usage > 0 and stock < 8 * predicted_daily_usage, so that
\* predicted_daily_usage * 30 - stock > 0 and the reorder quantity is that difference,
\* never the 0 of the max(0, ...) clamp.
C29_ReorderPositiveIffNeeded ==
    Rendered =>
        \A p \in Kept : \A i \in RowsOf(p) :
            Product[p].stock >= 0 =>
                /\ forecast.forecast_data[i].reorder_qty > 0 <=> DaysOf(p) <= 7
                /\ DaysOf(p) <= 7 =>
                      /\ UsageOf(p) > 0
                      /\ 100 * Product[p].stock < 8 * UsageOf(p)
                      /\ 30 * UsageOf(p) - 100 * Product[p].stock > 0
                      /\ forecast.forecast_data[i].reorder_qty =
                             30 * UsageOf(p) - 100 * Product[p].stock

\* C29 witness: milk with stock 7 and a predicted daily usage of 1: 7 days left, the
\* last day that needs reorder, reorder quantity 23; sugar with more than 7 days left
\* and reorder quantity 0
C29_Witness ==
    /\ Rendered
    /\ Product[2].stock = 7
    /\ UsageOf(2) = 100
    /\ \E i \in RowsOf(2) :
          /\ forecast.forecast_data[i].days_left = Shown(7)
          /\ forecast.forecast_data[i].reorder_qty = 2300
    /\ DaysOf(3) > 7
    /\ \E i \in RowsOf(3) : forecast.forecast_data[i].reorder_qty = 0

(***************************************************************************)
(* Category snapshot and idempotence claims                                *)
(***************************************************************************)
\* sale i carries a beverage category: read from the Sale row alone
RecordedAsBeverage(i) == Lower(Sale[i].category) \in BeverageCategoriesTraining

\* what the lines 1..j of the recipes of product b add for product p per unit sold
RECURSIVE RecordedLines(_, _, _)
RecordedLines(j, b, p) ==
    IF j = 0 THEN 0
    ELSE (IF LineOfProduct(j, b) /\ RecipeIngredient[j].ingredient = p
          THEN RecipeIngredient[j].quantity_needed ELSE 0)
         + RecordedLines(j - 1, b, p)

\* what the sales 1..i add to the series of p on day d when each sale is classified by
\* the category recorded on it; no current category of a product is read
RECURSIVE RecordedSum(_, _, _)
RecordedSum(i, p, d) ==
    IF i = 0 THEN 0
    ELSE (IF i \in WindowIdx /\ Resolves(i) /\ Sale[i].order_date = d
          THEN IF RecordedAsBeverage(i)
               THEN Sale[i].quantity * RecordedLines(Len(RecipeIngredient), SoldProduct(i), p)
               ELSE IF SoldProduct(i) = p THEN Sale[i].quantity ELSE 0
          ELSE 0)
         + RecordedSum(i - 1, p, d)

RecordedValue(p, d) == RecordedSum(Len(Sale), p, d)
RecordedDays(p) == {d \in Days : RecordedValue(p, d) # 0}

RECURSIVE RecordedTotal(_, _)
RecordedTotal(p, S) ==
    IF S = {} THEN 0
    ELSE LET d == CHOOSE x \in S : TRUE
         IN  RecordedValue(p, d) + RecordedTotal(p, S \ {d})

\* C19: whether a sale is expanded through a recipe or fed into its product's series
\* depends only on the category recorded on the Sale: under every current category of
\* the products, the series after a run are those the recorded categories give, and so
\* are the Prediction rows (one for each product with at least 3 days, with the number
\* of days, the rounded mean, trend 0 and confidence 0.6 of a series of 3 to 6 days).
C19_ClassifiedByRecordedCategory ==
    training.ran =>
        /\ training.response.success
        /\ \A p \in DOMAIN Product :
              /\ SeriesDays(p) = RecordedDays(p)
              /\ \A d \in Days : SeriesValue(p, d) = RecordedValue(p, d)
              /\ LET n == Cardinality(RecordedDays(p))
                     total == RecordedTotal(p, RecordedDays(p))
                 IN  /\ Cardinality(PredictionRows(p)) = IF n >= MinDataPoints THEN 1 ELSE 0
                     /\ \A k \in PredictionRows(p) :
                           LET row == MLPrediction[k]
                               gap == row.avg_daily_usage * n - 100 * total
                           IN  /\ row.data_points = n
                               /\ 2 * gap <= n /\ -2 * gap <= n
                               /\ n < TrendWindow =>
                                     /\ row.predicted_daily_usage = row.avg_daily_usage
                                     /\ row.trend = 0
                                     /\ row.confidence_score = 60

\* C19 witness: the latte is currently a pastry and milk currently a drink, while every
\* latte sale was recorded as a hot drink and every milk sale as an ingredient: the
\* latte has no series, sugar and milk have one of 3 days and a prediction each
C19_Witness ==
    /\ training.ran
    /\ Product[1].category = "Pastries"
    /\ Product[2].category = "Drinks"
    /\ Len(Sale) = 6
    /\ \A i \in 1..Len(Sale) :
          Sale[i].category = IF Sale[i].product = 1 THEN "Hot Drinks" ELSE "Ingredients"
    /\ SeriesDays(1) = {}
    /\ SeriesDays(2) = {1, 2, 3}
    /\ SeriesDays(3) = {1, 2, 3}
    /\ PredictionRows(1) = {}
    /\ PredictionRows(2) # {}
    /\ PredictionRows(3) # {}

\* the Prediction rows of a table as the values the claim names
PredictionValues(table) ==
    {[product |-> table[k].product,
      predicted_daily_usage |-> table[k].predicted_daily_usage,
      avg_daily_usage |-> table[k].avg_daily_usage,
      trend |-> table[k].trend,
      confidence_score |-> table[k].confidence_score,
      data_points |-> table[k].data_points] : k \in 1..Len(table)}

\* what a run of train_forecasting_model on the current tables leaves in MLPrediction
RunAgain == ThirdLoop(SecondLoop(FirstLoop)).MLPrediction

\* C20: training is idempotent: a run of train_forecasting_model that follows a run on
\* the same products, recipes and sales leaves the same Prediction rows, one for each
\* product that had one, with the same predicted_daily_usage, avg_daily_usage, trend,
\* confidence_score and data_points.
C20_TrainingIdempotent ==
    [][training.ran =>
          /\ Len(MLPrediction') = Len(MLPrediction)
          /\ PredictionValues(MLPrediction') = PredictionValues(MLPrediction)
          /\ Cardinality(PredictionValues(MLPrediction')) = Len(MLPrediction')]_vars

\* C20 witness: after a run that wrote the predictions of milk (7 days or more) and of sugar
\* (3 days), a further run on these tables leaves the two rows as they are
C20_Witness ==
    /\ training.ran
    /\ Len(MLPrediction) = 2
    /\ PredictionRows(2) # {} /\ PredictionRows(3) # {}
    /\ \E k \in PredictionRows(2) : MLPrediction[k].data_points >= TrendWindow
    /\ \E k \in PredictionRows(2) : MLPrediction[k].trend # 0
    /\ RunAgain = MLPrediction

(***************************************************************************)
(* Retraining claims                                                       *)
(***************************************************************************)
\* the rows of MLModel named 'inventory_forecasting'
ModelRows == {k \in 1..Len(MLModel) : MLModel[k].name = "inventory_forecasting"}

\* C21: after any sequence of training runs over changing ledgers there is at most one
\* Prediction row per product and at most one MLModel row named
\* 'inventory_forecasting'; after a successful run there is exactly one such MLModel
\* row, and one Prediction row for each product the run fitted.
C21_OneRowPerKey ==
    /\ \A p \in DOMAIN Product : Cardinality(PredictionRows(p)) <= 1
    /\ Len(MLPrediction) <= Len(Product)
    /\ Cardinality(ModelRows) <= 1
    /\ Len(MLModel) <= 1
    /\ Succeeded =>
          /\ Cardinality(ModelRows) = 1
          /\ \A p \in DOMAIN training.fits : Cardinality(PredictionRows(p)) = 1

\* C21 witness: the sugar row was written by an earlier run (the present ledger has no
\* latte sale), the milk row by the last one, which overwrote the MLModel row
C21_Witness ==
    /\ Succeeded
    /\ DOMAIN training.fits = {2}
    /\ SeriesDays(3) = {}
    /\ Cardinality(PredictionRows(2)) = 1
    /\ Cardinality(PredictionRows(3)) = 1
    /\ Len(MLModel) = 1
    /\ MLModel[1].predictions_generated = 1

\* C22 as stated: every successful run overwrites the MLModel record with is_trained
\* true, accuracy 85, model_type "Recipe-Based Moving Average", training_period_days 90
\* and the total_records, products_analyzed and predictions_generated of that run.
C22_ModelRunOverwritten ==
    Succeeded =>
        /\ Len(MLModel) = 1
        /\ MLModel[1] =
              [name |-> "inventory_forecasting",
               is_trained |-> TRUE,
               total_records |-> training.response.total_records,
               products_analyzed |-> Cardinality(DOMAIN training.product_daily_sales),
               predictions_generated |-> training.response.predictions_generated,
               accuracy |-> 85,
               model_type |-> "Recipe-Based Moving Average",
               training_period_days |-> 90]

\* what a complete run of train_forecasting_model on the current ledger, products and
\* recipes leaves in MLPrediction and MLModel when it finds the rows predictions and
\* models in them
CompleteRunOn(predictions, models) ==
    LET first == FirstLoop
        second == SecondLoop(first)
        third == SavePredictions(DOMAIN second.product_daily_sales,
                     second.product_daily_sales,
                     [MLPrediction |-> predictions, predictions_saved |-> 0])
    IN  [MLPrediction |-> third.MLPrediction,
         MLModel |-> UpdateOrCreate(models, "name", "inventory_forecasting",
                         ModelDefaults(first.total_records,
                                       Cardinality(DOMAIN second.product_daily_sales),
                                       third.predictions_saved))]

CompleteRun == CompleteRunOn(MLPrediction, MLModel)

\* the step is a run on unchanged products, recipes and sales that ended in the except
\* branch
AbortedStep ==
    /\ UNCHANGED local_vars
    /\ training'.ran /\ ~training'.response.success

\* C24: training is safe to retry in full after a partial failure: after a run that
\* aborted having written any part of the Predictions, with or without the MLModel row,
\* a complete run on the same ledger leaves the Prediction and MLModel rows that a
\* complete run from the state before the aborted run leaves.
C24_RetryAfterPartialFailure ==
    [][AbortedStep => CompleteRunOn(MLPrediction', MLModel') = CompleteRun]_vars

\* C24 witness: an aborted run has written the prediction of milk and neither that of
\* sugar nor the MLModel row; a complete run on these tables writes both
C24_Witness ==
    /\ training.ran /\ ~training.response.success
    /\ MLModel = <<>>
    /\ Len(MLPrediction) = 1
    /\ PredictionRows(2) # {}
    /\ Len(CompleteRun.MLPrediction) = 2
    /\ Len(CompleteRun.MLModel) = 1
    /\ CompleteRun.MLModel[1].predictions_generated = 2

\* C27: a run never deletes or modifies the Prediction of a product it does not fit: a
\* row of a product with fewer than 3 days in the series of the run is left as it was,
\* and the number of rows never decreases.
C27_UnfittedPredictionKept ==
    [][/\ Len(MLPrediction') >= Len(MLPrediction)
       /\ \A k \in 1..Len(MLPrediction) :
             Cardinality(SeriesDays(MLPrediction[k].product)') < MinDataPoints =>
                 MLPrediction'[k] = MLPrediction[k]]_vars

\* C27 witness: after a successful run that fitted no product the table still holds
\* the predictions of milk and of sugar: more rows than predictions_generated
C27_Witness ==
    /\ Succeeded
    /\ training.response.predictions_generated = 0
    /\ MLModel[1].predictions_generated = 0
    /\ Cardinality(SeriesDays(2)) < MinDataPoints
    /\ SeriesDays(3) = {}
    /\ Len(MLPrediction) = 2
    /\ \E k \in PredictionRows(2) : MLPrediction[k].data_points = MinDataPoints

(***************************************************************************)
(* Recipe management claims                                                *)
(***************************************************************************)
\* the lines of the recipe document with the id, in a lines collection
LinesOf(lines, recipe_id) == {k \in 1..Len(lines) : lines[k].recipeFirebaseId = recipe_id}

\* no two recipe documents of the collection have the same productFirebaseId
OnePerProduct(recipes) ==
    \A i, j \in 1..Len(recipes) :
        i # j => recipes[i].productFirebaseId # recipes[j].productFirebaseId

\* C23 as stated: after any sequence of add_recipe_api, update_recipe_api and
\* delete_recipe_api calls served one after the other from a store without recipes, no
\* two recipes have the same productFirebaseId, and add_recipe_api creates a recipe
\* only for a product without one and otherwise leaves recipes and recipe_ingredients
\* unchanged.
C23_OneRecipePerProduct ==
    [][/\ OnePerProduct(recipes_col')
       /\ recipe_api'.handler = "add_recipe_api" =>
             IF recipe_api'.success
             THEN /\ Len(recipes_col') = Len(recipes_col) + 1
                  /\ ExistingRecipes(recipes_col'[Len(recipes_col')].productFirebaseId) = {}
             ELSE UNCHANGED <<recipes_col, recipe_ingredients_col>>]_vars

\* every line names the id of a recipe document
LinesReferToRecipes ==
    \A k \in 1..Len(recipe_ingredients_col) :
        \E i \in 1..Len(recipes_col) :
            recipes_col[i].id = recipe_ingredients_col[k].recipeFirebaseId

\* C26 as stated: after any sequence of successful add_recipe_api, update_recipe_api
\* and delete_recipe_api calls every recipe has at least one recipe_ingredients line
\* and every line refers to an existing recipe.
C26_RecipesHaveLines ==
    /\ LinesReferToRecipes
    /\ \A i \in 1..Len(recipes_col) : LinesOf(recipe_ingredients_col, recipes_col[i].id) # {}

\* C26 (as amended): every recipe_ingredients line refers to an existing recipe, and a
\* recipe is without lines only from a successful update_recipe_api on: add_recipe_api
\* creates a recipe with at least one line and delete_recipe_api leaves no line of the
\* recipe it removes.
C26_LinesReferToRecipes ==
    [][/\ LinesReferToRecipes'
       /\ \A i \in 1..Len(recipes_col') :
             LET id == recipes_col'[i].id
             IN  LinesOf(recipe_ingredients_col', id) = {} =>
                    \/ recipe_api'.handler = "update_recipe_api" /\ recipe_api'.success
                    \/ RecipeDocument(id) # {} /\ LinesOf(recipe_ingredients_col, id) = {}]_vars

\* C26 witness: a successful update has left one recipe without lines next to a recipe
\* with two lines, after a recipe was deleted with its lines
C26_Witness ==
    /\ recipe_api = Response("update_recipe_api", TRUE, "updated successfully")
    /\ Len(recipes_col) = 2
    /\ LinesOf(recipe_ingredients_col, recipes_col[1].id) = {}
    /\ Cardinality(LinesOf(recipe_ingredients_col, recipes_col[2].id)) = 2
    /\ LinesReferToRecipes

\* the requests in flight that created a recipe document
Creators == {r \in DOMAIN add_requests : add_requests[r].recipe_id # ""}

\* C25 as stated: when two add_recipe_api requests for the same product are interleaved
\* at most one of them creates a recipe, and no interleaving of the check-then-insert
\* steps leaves two recipes with the same productFirebaseId.
C25_NoDuplicateUnderInterleaving ==
    /\ OnePerProduct(recipes_col)
    /\ \A r, q \in Creators :
          r # q => add_requests[r].product_firebase_id # add_requests[q].product_firebase_id

(***************************************************************************)
(* Model status claims                                                     *)
(***************************************************************************)
\* C28: once a training run has completed successfully the model status has is_trained
\* true in every later state: a successful run leaves it true, no training run
\* (successful or aborted), forecast view, feasibility computation or recipe operation
\* sets it back to false or removes the MLModel record, and every forecast view rendered
\* from then on shows it true.
C28_TrainedStaysTrained ==
    [][/\ Succeeded' => ModelStatus'.is_trained
       /\ ModelStatus.is_trained =>
             /\ ModelStatus'.is_trained
             /\ Len(MLModel') >= 1
             /\ forecast' # forecast => forecast'.model_status.is_trained]_vars

\* C28 witness: after a successful run an aborted run, a recipe creation, a feasibility
\* computation and a forecast view have followed; the view shows is_trained true
C28_Witness ==
    /\ training.ran /\ ~training.response.success
    /\ ModelStatus.is_trained
    /\ Len(recipes_col) >= 1
    /\ max_servings.called
    /\ forecast.rendered
    /\ forecast.model_status.is_trained
====
